---- MODULE Spec2Model ----
(***************************************************************************)
(* PLC integration layer of Maintaipredict (src/plc_integration.py):       *)
(* the Siemens S7 and Schneider Modbus TCP vendor clients, the sensor      *)
(* mapper and the connection registry of PLCIntegrationService.            *)
(*                                                                         *)
(* Conventions.  Byte strings are sequences of 0..255; the operators At    *)
(* and Slice keep Python's 0-based offsets.  A client object is a record   *)
(* of its fields, the heap `clients` holds the client objects that ever    *)
(* connected, and the three dictionaries of the service hold heap ids.     *)
(* A Python call that can raise is modelled by a record with a field       *)
(* `raised`, an Optional value by a record with a field `none`.  The peer  *)
(* (the PLC and the network) is an input: every exchange draws what        *)
(* happens to the send and the recv from a set of outcomes.  A call of the *)
(* facade is recorded in `call` until it returns to its caller; the vendor *)
(* loop of a sensor batch advances one sensor at a time.                   *)
(***************************************************************************)
EXTENDS Integers, Sequences, FiniteSets, TLC

(***************************************************************************)
(* Bounds of the model                                                     *)
(***************************************************************************)
\* client objects that connect successfully during one run
MaxClients == 2
\* sensors of one machine configuration
MaxSensors == 2
\* cap of the Modbus transaction counter of one client
MaxTid == 2

\* the factory ids of the Factory table
Factories == {"f1", "f2"}

(***************************************************************************)
(* Python bytes                                                            *)
(***************************************************************************)
\* response[i]
At(b, i) == b[i + 1]

\* response[a:b], clamped as Python clamps a slice
Slice(b, lo, hi) ==
    LET h == IF hi > Len(b) THEN Len(b) ELSE hi
    IN  IF lo >= h THEN << >> ELSE SubSeq(b, lo + 1, h)

\* n zero bytes
Zeros(n) == [i \in 1..n |-> 0]

\* the float32 pattern of the Python float that four bytes are read as: the
\* widening to a double sets the quiet bit (bit 22 of the pattern) of a
\* signalling NaN (exponent bits all ones, mantissa not zero)
Quiet(raw) ==
    IF raw[1] % 128 = 127 /\ raw[2] >= 128 /\ raw[2] < 192
           /\ (raw[2] - 128) + raw[3] + raw[4] > 0
    THEN [raw EXCEPT ![2] = @ + 64]
    ELSE raw

\* a 32-bit pattern as one integer, the first byte taken as signed
Pattern(raw) ==
    LET high == IF raw[1] >= 128 THEN raw[1] - 256 ELSE raw[1]
    IN  ((high * 256 + raw[2]) * 256 + raw[3]) * 256 + raw[4]

\* struct.unpack('>f', raw): a float is identified by its float32 pattern
UnpackFloat(raw) ==
    IF Len(raw) # 4
    THEN [raised |-> TRUE, v |-> 0]
    ELSE [raised |-> FALSE, v |-> Pattern(Quiet(raw))]

\* struct.pack('>I', (high << 16) | low) of two 16-bit words
PackWords(high, low) ==
    <<high \div 256, high % 256, low \div 256, low % 256>>

\* struct.unpack('>h', raw): big-endian signed 16-bit
UnpackShort(raw) ==
    IF Len(raw) # 2
    THEN [raised |-> TRUE, v |-> 0]
    ELSE LET u == raw[1] * 256 + raw[2]
         IN  [raised |-> FALSE, v |-> IF u >= 32768 THEN u - 65536 ELSE u]

\* struct.unpack('>H', raw): big-endian unsigned 16-bit
UnpackUShort(raw) ==
    IF Len(raw) # 2
    THEN [raised |-> TRUE, v |-> 0]
    ELSE [raised |-> FALSE, v |-> raw[1] * 256 + raw[2]]

(***************************************************************************)
(* The peer: what one socket exchange (send, then recv) can do             *)
(***************************************************************************)
\* send raises socket.error: nothing reaches the peer
SendError == [k |-> "send_error", data |-> << >>]
\* recv raises socket.error
SockError == [k |-> "error", data |-> << >>]
\* recv raises socket.timeout
SockTimeout == [k |-> "timeout", data |-> << >>]
\* recv returns these bytes
Reply(bytes) == [k |-> "reply", data |-> bytes]
\* no exchange took place
NoExchange == [k |-> "none", data |-> << >>]

\* an S7 read response: 21 header bytes, status, transport size, length, data
S7ReadFrame(status, declared, payload) ==
    <<3, 0, 0, 25 + Len(payload), 2, 240, 128, 50, 3>> \o Zeros(12)
        \o <<status, 4, declared \div 256, declared % 256>> \o payload

S7Ok4 == S7ReadFrame(255, 4, <<65, 200, 0, 0>>)
S7Ok2 == S7ReadFrame(255, 2, <<255, 214>>)
S7Ok0 == S7ReadFrame(255, 0, << >>)
S7Rejected == S7ReadFrame(10, 0, << >>)
S7Truncated == S7ReadFrame(255, 4, <<65, 200>>)
S7Short == <<3, 0, 0, 7, 2, 240, 128>>

\* a Modbus TCP read response: MBAP header, function code, byte count, data
ModbusReadFrame(func, byte_count, payload) ==
    <<0, 1, 0, 0, 0, 3 + Len(payload), 1, func, byte_count>> \o payload

MbOk1 == ModbusReadFrame(3, 2, <<0, 230>>)
MbOk2 == ModbusReadFrame(3, 4, <<65, 200, 0, 0>>)
MbOk0 == ModbusReadFrame(3, 0, << >>)
MbException == ModbusReadFrame(131, 2, << >>)
MbTruncated == ModbusReadFrame(3, 4, <<65, 200>>)
MbShort == <<0, 1, 0, 0, 0>>
\* a response that declares three data bytes and carries two
MbOdd == ModbusReadFrame(3, 3, <<0, 230>>)

\* write responses
S7WriteAck == <<3, 0, 0, 22, 2, 240, 128, 50, 3>> \o Zeros(12) \o <<255>>
S7WriteNak == <<3, 0, 0, 22, 2, 240, 128, 50, 3>> \o Zeros(12) \o <<5>>
MbWriteAck == <<0, 1, 0, 0, 0, 6, 1, 6, 3, 232, 0, 1>>
MbWriteNak == <<0, 1, 0, 0, 0, 3, 1, 134, 2>>

\* replies to the ISO connection request
IsoAccepted == <<3, 0, 0, 22, 17, 208, 0, 1, 0, 1, 0>>
IsoRejected == <<3, 0, 0, 22, 17, 128, 0, 1, 0, 1, 0>>
IsoShort == <<3, 0, 0>>

S7ReadReplies == {S7Ok4, S7Ok2, S7Ok0, S7Rejected, S7Truncated, S7Short}
MbReadReplies == {MbOk1, MbOk2, MbOk0, MbException, MbTruncated, MbShort}
IsoReplies == {IsoAccepted, IsoRejected, IsoShort}

Failures == {SendError, SockError, SockTimeout}
ReadOutcomes(type) ==
    Failures \cup {Reply(b) : b \in IF type = "siemens" THEN S7ReadReplies
                                                       ELSE MbReadReplies}
WriteOutcomes(type) ==
    Failures \cup {Reply(b) : b \in IF type = "siemens"
                                    THEN {S7WriteAck, S7WriteNak, S7Short}
                                    ELSE {MbWriteAck, MbWriteNak, MbShort}}
IsoOutcomes == Failures \cup {Reply(b) : b \in IsoReplies}
\* socket.connect((ip, port))
TcpOutcomes == {"ok", "refused", "timeout"}

(***************************************************************************)
(* Vendor clients.  A client object is the record of its fields; socket is *)
(* "None" or "open".  Every method returns the client after the call (c),  *)
(* its return value (ret) and the requests that reached the wire (sent).   *)
(***************************************************************************)
\* SiemensS7Client.__init__ / SchneiderModiconClient.__init__
NewClient(kind, ip_address) ==
    [kind |-> kind, ip_address |-> ip_address, socket |-> "None",
     connected |-> FALSE, transaction_id |-> 0]

\* the value of `client` in a call that constructs or uses none
NoClient == NewClient("none", "")

\* one request on the wire
Request(fn, unit, addr, n, data, tid) ==
    [fn |-> fn, unit |-> unit, addr |-> addr, n |-> n, data |-> data, tid |-> tid]

\* the requests of one exchange: the request, unless send raised
Wire(o, req) == IF o.k = "send_error" THEN << >> ELSE <<req>>

\* Optional[bytes] and Optional[List[int]]
NoData == [none |-> TRUE, data |-> << >>]
SomeData(d) == [none |-> FALSE, data |-> d]

\* a disconnect that forgets the socket
ClientDisconnectLeaveOpen(c) == [c EXCEPT !.connected = FALSE]

\* disconnect() of both clients: close the socket if there is one
ClientDisconnect(c) == [c EXCEPT !.socket = "None", !.connected = FALSE]

\* the result of a client method: the client after the call, the value
\* returned, the requests that reached the wire, and whether an exception
\* left the method
Result(c, ret, sent, raised) ==
    [c |-> c, ret |-> ret, sent |-> sent, raised |-> raised]

\* an except clause that catches nothing
ExceptNothing(try, default) == try

\* `except Exception as e:` of a client method: log, return the default
Except(try, default) ==
    IF try.raised THEN Result(try.c, default, try.sent, FALSE) ELSE try

\* self.socket.send(request); response = self.socket.recv(1024)
Exchange(o, req) ==
    [raised |-> o.k # "reply", sent |-> Wire(o, req), response |-> o.data]

\* bytearray([...]) raises ValueError on an item outside range(256)
IsByte(v) == v >= 0 /\ v <= 255

\* disconnect() called by a user of the client: `try: self.socket.close()
\* except: pass` when there is a socket, then the fields are cleared
DisconnectMethod(c, close) ==
    LET closing == Except(Result(c, FALSE, << >>,
                                 c.socket # "None" /\ close = "error"), FALSE)
    IN  Result(ClientDisconnect(c), FALSE, << >>, closing.raised)

\* a handshake that takes any reply for an acceptance
SendConnectionRequestAnyReply(o) == o.k = "reply"

\* SiemensS7Client._send_connection_request
SendConnectionRequest(o) ==
    IF o.k # "reply"
    THEN FALSE
    ELSE Len(o.data) >= 6 /\ At(o.data, 5) = 208

\* SiemensS7Client.connect
S7Connect(c, tcp, o) ==
    LET opened == [c EXCEPT !.socket = "open"]
        iso == Request("iso_cr", 0, 0, 0, << >>, 0)
        try == IF tcp # "ok"
               THEN Result(opened, FALSE, << >>, TRUE)
               ELSE IF SendConnectionRequest(o)
                    THEN Result([opened EXCEPT !.connected = TRUE], TRUE,
                                Wire(o, iso), FALSE)
                    ELSE Result(ClientDisconnect(opened), FALSE,
                                Wire(o, iso), FALSE)
    IN  IF try.raised
        THEN Except(Result(ClientDisconnect(try.c), FALSE, try.sent, TRUE),
                    FALSE)
        ELSE try

\* SiemensS7Client._parse_read_response
S7ParseReadResponse(response) ==
    IF Len(response) < 25
    THEN NoData
    ELSE IF At(response, 21) = 255
         THEN LET data_length == At(response, 23) * 256 + At(response, 24)
              IN  IF Len(response) >= 25 + data_length
                  THEN SomeData(Slice(response, 25, 25 + data_length))
                  ELSE NoData
         ELSE NoData

\* a write parser that takes any response long enough for an acknowledgement
S7ParseWriteResponseAnyStatus(response) == Len(response) >= 22

\* SiemensS7Client._parse_write_response
S7ParseWriteResponse(response) ==
    IF Len(response) < 22 THEN FALSE ELSE At(response, 21) = 255

\* SiemensS7Client._build_read_request raises ValueError
S7BuildReadRaises(db_number, start, size) ==
    ~(IsByte(db_number) /\ IsByte(start \div 65536) /\ IsByte(start \div 256)
        /\ IsByte(size \div 256))

\* SiemensS7Client._build_write_request raises ValueError
S7BuildWriteRaises(db_number, start, data) ==
    ~(IsByte(31 + Len(data)) /\ IsByte(db_number) /\ IsByte(start \div 65536)
        /\ IsByte(start \div 256) /\ IsByte(Len(data) \div 256))

\* iso_cr of SiemensS7Client._send_connection_request
IsoConnectionRequest ==
    <<3, 0, 0, 22,
      17, 224, 0, 0, 0, 1, 0,
      192, 1, 10,
      193, 2, 1, 0,
      194, 2, 1, 2>>

\* SiemensS7Client._build_read_request, when it does not raise
S7BuildReadRequest(db_number, start, size) ==
    <<3, 0, 0, 31,
      2, 240, 128,
      50, 1, 0, 0, 0, 0, 0, 14,
      0, 0, 4, 1,
      18, 10, 16, 2,
      0, 1,
      0, db_number,
      132,
      start \div 65536, start \div 256, start % 256,
      0, size \div 256, size % 256>>

\* SiemensS7Client._build_write_request, when it does not raise
S7BuildWriteRequest(db_number, start, data) ==
    <<3, 0, 0, 31 + Len(data),
      2, 240, 128,
      50, 1, 0, 0, 0, 0, 0, 14,
      0, 0, 5, 1,
      18, 10, 16, 2,
      0, 1,
      0, db_number,
      132,
      start \div 65536, start \div 256, start % 256,
      0, Len(data) \div 256, Len(data) % 256>> \o data

\* the bytes that self.socket.send puts on the wire for an S7 request
S7Frame(req) ==
    CASE req.fn = "iso_cr" -> IsoConnectionRequest
      [] req.fn = "read_db" -> S7BuildReadRequest(req.unit, req.addr, req.n)
      [] OTHER -> S7BuildWriteRequest(req.unit, req.addr, req.data)

\* a read_db that gives the connection up on a response it cannot use
S7ReadDbDropsConnection(c, db_number, start, size, o) ==
    LET req == Request("read_db", db_number, start, size, << >>, 0)
    IN  IF ~c.connected
        THEN Result(c, NoData, << >>, FALSE)
        ELSE IF o.k # "reply"
             THEN Result(c, NoData, Wire(o, req), FALSE)
             ELSE IF S7ParseReadResponse(o.data).none
                  THEN Result(ClientDisconnect(c), NoData, <<req>>, FALSE)
                  ELSE Result(c, S7ParseReadResponse(o.data), <<req>>, FALSE)

\* SiemensS7Client.read_db
S7ReadDb(c, db_number, start, size, o) ==
    LET req == Request("read_db", db_number, start, size, << >>, 0)
        x == Exchange(o, req)
        try == IF S7BuildReadRaises(db_number, start, size)
               THEN Result(c, NoData, << >>, TRUE)
               ELSE IF x.raised
                    THEN Result(c, NoData, x.sent, TRUE)
                    ELSE Result(c, S7ParseReadResponse(x.response), x.sent,
                                FALSE)
    IN  IF ~c.connected
        THEN Result(c, NoData, << >>, FALSE)
        ELSE Except(try, NoData)

\* SiemensS7Client.write_db
S7WriteDb(c, db_number, start, data, o) ==
    LET req == Request("write_db", db_number, start, Len(data), data, 0)
        x == Exchange(o, req)
        try == IF S7BuildWriteRaises(db_number, start, data)
               THEN Result(c, FALSE, << >>, TRUE)
               ELSE IF x.raised
                    THEN Result(c, FALSE, x.sent, TRUE)
                    ELSE Result(c, S7ParseWriteResponse(x.response), x.sent,
                                FALSE)
    IN  IF ~c.connected
        THEN Result(c, FALSE, << >>, FALSE)
        ELSE Except(try, FALSE)

\* SchneiderModiconClient.connect
ModbusConnect(c, tcp) ==
    LET opened == [c EXCEPT !.socket = "open"]
    IN  IF tcp # "ok"
        THEN Except(Result(ClientDisconnect(opened), FALSE, << >>, TRUE),
                    FALSE)
        ELSE Result([opened EXCEPT !.connected = TRUE], TRUE, << >>, FALSE)

\* the loop of _parse_read_registers_response: struct.unpack raises on a
\* slice shorter than two bytes
RECURSIVE ModbusValues(_, _, _, _)
ModbusValues(response, count, i, values) ==
    IF i >= count
    THEN [raised |-> FALSE, values |-> values]
    ELSE LET u == UnpackUShort(Slice(response, 9 + i * 2, 11 + i * 2))
         IN  IF u.raised
             THEN [raised |-> TRUE, values |-> values]
             ELSE ModbusValues(response, count, i + 1, Append(values, u.v))

\* SchneiderModiconClient._parse_read_registers_response
ModbusParseReadRegistersResponse(response) ==
    IF Len(response) < 9
    THEN [raised |-> FALSE, ret |-> NoData]
    ELSE LET func_code == At(response, 7)
             byte_count == At(response, 8)
         IN  IF (func_code \div 128) % 2 = 1
             THEN [raised |-> FALSE, ret |-> NoData]
             ELSE LET r == ModbusValues(response, byte_count \div 2, 0, << >>)
                  IN  [raised |-> r.raised, ret |-> SomeData(r.values)]

\* a write parser that does not look at the error bit
ModbusParseWriteResponseAnyCode(response) == Len(response) >= 8

\* SchneiderModiconClient._parse_write_response
ModbusParseWriteResponse(response) ==
    IF Len(response) < 8 THEN FALSE ELSE (At(response, 7) \div 128) % 2 = 0

\* struct.pack('>H', v) raises struct.error outside 0..65535
PackUShortRaises(v) == v < 0 \/ v > 65535

\* SchneiderModiconClient._build_modbus_request raises struct.error
ModbusBuildRaises(transaction_id, address, data) ==
    PackUShortRaises(transaction_id) \/ PackUShortRaises(address)
        \/ PackUShortRaises(data)

\* SchneiderModiconClient.read_holding_registers
ModbusReadHoldingRegisters(c, address, count, o) ==
    LET c1 == [c EXCEPT !.transaction_id = @ + 1]
        req == Request("read_holding_registers", 1, address, count, << >>,
                       c1.transaction_id)
        x == Exchange(o, req)
        p == ModbusParseReadRegistersResponse(x.response)
        try == IF ModbusBuildRaises(c1.transaction_id, address, count)
               THEN Result(c1, NoData, << >>, TRUE)
               ELSE IF x.raised
                    THEN Result(c1, NoData, x.sent, TRUE)
                    ELSE Result(c1, p.ret, x.sent, p.raised)
    IN  IF ~c.connected
        THEN Result(c, NoData, << >>, FALSE)
        ELSE Except(try, NoData)

\* SchneiderModiconClient.write_single_register
ModbusWriteSingleRegister(c, address, value, o) ==
    LET c1 == [c EXCEPT !.transaction_id = @ + 1]
        req == Request("write_single_register", 1, address, 1, <<value>>,
                       c1.transaction_id)
        x == Exchange(o, req)
        try == IF ModbusBuildRaises(c1.transaction_id, address, value)
               THEN Result(c1, FALSE, << >>, TRUE)
               ELSE IF x.raised
                    THEN Result(c1, FALSE, x.sent, TRUE)
                    ELSE Result(c1, ModbusParseWriteResponse(x.response),
                                x.sent, FALSE)
    IN  IF ~c.connected
        THEN Result(c, FALSE, << >>, FALSE)
        ELSE Except(try, FALSE)

\* SchneiderModiconClient._build_modbus_write_multiple_request raises
\* struct.error
ModbusBuildMultipleRaises(transaction_id, address, values) ==
    \/ PackUShortRaises(transaction_id) \/ PackUShortRaises(7 + 2 * Len(values))
    \/ PackUShortRaises(address) \/ ~IsByte(2 * Len(values))
    \/ \E i \in DOMAIN values : PackUShortRaises(values[i])

\* SchneiderModiconClient.write_multiple_registers
ModbusWriteMultipleRegisters(c, address, values, o) ==
    LET c1 == [c EXCEPT !.transaction_id = @ + 1]
        req == Request("write_multiple_registers", 1, address, Len(values),
                       values, c1.transaction_id)
        x == Exchange(o, req)
        try == IF ModbusBuildMultipleRaises(c1.transaction_id, address, values)
               THEN Result(c1, FALSE, << >>, TRUE)
               ELSE IF x.raised
                    THEN Result(c1, FALSE, x.sent, TRUE)
                    ELSE Result(c1, ModbusParseWriteResponse(x.response),
                                x.sent, FALSE)
    IN  IF ~c.connected
        THEN Result(c, FALSE, << >>, FALSE)
        ELSE Except(try, FALSE)

(***************************************************************************)
(* Sensor mapper.  A sensor configuration is a dict sensor_type -> config; *)
(* it is modelled as the sequence of its items in iteration order, the     *)
(* sensor_type of the i-th item being i.  A config is the set of its keys  *)
(* and their values; scale_factor is held in tenths (10 is 1.0).           *)
(***************************************************************************)
Config(keys, db_number, address, data_type, scale_factor) ==
    [keys |-> keys, db_number |-> db_number, address |-> address,
     data_type |-> data_type, scale_factor |-> scale_factor]

\* the configs sensors are drawn from
SensorConfigs ==
    { Config({"db_number", "address", "data_type"}, 1, 0, "real", 10),
      Config({"db_number", "address", "data_type"}, 1, 4, "int", 10),
      Config({"db_number", "address", "data_type"}, 1, 6, "bool", 10),
      Config({"db_number", "address"}, 1, 8, "", 10),
      Config({"address", "data_type", "scale_factor"}, 0, 1000,
             "holding_register", 1),
      Config({"address", "data_type"}, 0, 1002, "holding_register_float", 10),
      Config({"data_type"}, 0, 0, "real", 10) }

\* the data_type of the config is ignored
DataTypeIgnored(config, default) == default

\* config.get('data_type', default)
DataType(config, default) ==
    IF "data_type" \in config.keys THEN config.data_type ELSE default

\* config.get('scale_factor', 1.0)
ScaleFactor(config) ==
    IF "scale_factor" \in config.keys THEN config.scale_factor ELSE 10

\* a numeric value: v / den, a float32 from the wire being its bit pattern
FloatBits(bits) == [type |-> "float", v |-> bits, den |-> 1]
IntValue(v) == [type |-> "int", v |-> v, den |-> 1]
Scaled(word, scale) == [type |-> "float", v |-> word * scale, den |-> 10]

\* sensor_data[sensor_type] = {...}
Put(sensor_data, sensor_type, value) ==
    [k \in DOMAIN sensor_data \cup {sensor_type} |->
        IF k = sensor_type THEN value ELSE sensor_data[k]]

\* the state of a batch: the client, the dict built so far, the requests
\* sent, and whether an exception left the loop
Batch(c, sensor_data, sent, raised) ==
    [c |-> c, sensor_data |-> sensor_data, sent |-> sent, raised |-> raised]

\* a read treated as failed although it returned nothing to decode
TruthyAlways(ret) == TRUE

\* `if raw_data:` and `if values:`: neither None nor empty
Truthy(ret) == ~ret.none /\ Len(ret.data) > 0

\* one iteration of the loop of _read_siemens_sensor_data
SiemensSensor(b, sensor_type, config, o) ==
    IF ~({"db_number", "address"} \subseteq config.keys)
    THEN b
    ELSE LET data_type == DataType(config, "real")
             size == IF data_type = "real" THEN 4 ELSE 2
             r == S7ReadDb(b.c, config.db_number, config.address, size, o)
             sent == b.sent \o r.sent
             unpacked == IF data_type = "real" THEN UnpackFloat(r.ret.data)
                                               ELSE UnpackShort(r.ret.data)
             value == IF data_type = "real" THEN FloatBits(unpacked.v)
                                            ELSE IntValue(unpacked.v)
         IN  IF data_type \notin {"real", "int"}
             THEN b
             ELSE IF ~Truthy(r.ret)
                  THEN Batch(r.c, b.sensor_data, sent, FALSE)
                  ELSE IF unpacked.raised
                       THEN Batch(r.c, b.sensor_data, sent, TRUE)
                       ELSE Batch(r.c, Put(b.sensor_data, sensor_type, value),
                                  sent, FALSE)

\* one iteration of the loop of _read_schneider_sensor_data
SchneiderSensor(b, sensor_type, config, o) ==
    IF "address" \notin config.keys
    THEN b
    ELSE LET data_type == DataType(config, "holding_register")
             count == IF data_type = "holding_register" THEN 1 ELSE 2
             r == ModbusReadHoldingRegisters(b.c, config.address, count, o)
             sent == b.sent \o r.sent
             values == r.ret.data
         IN  IF data_type = "holding_register"
             THEN IF ~Truthy(r.ret)
                  THEN Batch(r.c, b.sensor_data, sent, FALSE)
                  ELSE IF Len(values) = 0
                       THEN Batch(r.c, b.sensor_data, sent, TRUE)
                       ELSE Batch(r.c,
                                  Put(b.sensor_data, sensor_type,
                                      Scaled(values[1], ScaleFactor(config))),
                                  sent, FALSE)
             ELSE IF data_type = "holding_register_float"
                  THEN IF ~(Truthy(r.ret) /\ Len(values) = 2)
                       THEN Batch(r.c, b.sensor_data, sent, FALSE)
                       ELSE Batch(r.c,
                                  Put(b.sensor_data, sensor_type,
                                      FloatBits(UnpackFloat(PackWords(
                                          values[1], values[2])).v)),
                                  sent, FALSE)
                  ELSE b

\* whether an iteration calls the client at all
SendsRequest(type, config) ==
    IF type = "siemens"
    THEN {"db_number", "address"} \subseteq config.keys
         /\ DataType(config, "real") \in {"real", "int"}
    ELSE "address" \in config.keys
         /\ DataType(config, "holding_register")
                \in {"holding_register", "holding_register_float"}

(***************************************************************************)
(* PLCIntegrationService                                                   *)
(***************************************************************************)
VARIABLES
    clients,             \* the client objects that connected, by heap id
    siemens_clients,     \* self.siemens_clients: factory_id -> heap id
    schneider_clients,   \* self.schneider_clients: factory_id -> heap id
    active_connections,  \* self.active_connections: factory_id -> entry
    now,                 \* datetime.utcnow(), a logical clock
    call                 \* the call in progress or the last call completed

registry == <<siemens_clients, schneider_clients, active_connections>>
vars == <<clients, siemens_clients, schneider_clients, active_connections,
          now, call>>

\* return values: None / a bool / a dict of readings
Ret(none, ok, data) == [none |-> none, ok |-> ok, data |-> data]
EmptyDict == [k \in {} |-> 0]

\* the record of a call: its arguments, the connection it used, the inputs
\* drawn from the peer, what it sent, and what it returned
Call(op, pc, fid, type, client, obj, cfg, outs, sensor_data, sent, raised, ret) ==
    [op |-> op, pc |-> pc, fid |-> fid, type |-> type, client |-> client,
     obj |-> obj, cfg |-> cfg, outs |-> outs, sensor_data |-> sensor_data,
     sent |-> sent, raised |-> raised, ret |-> ret]

NoCall ==
    Call("none", "done", "", "none", 0, NoClient, << >>, << >>,
         EmptyDict, << >>, FALSE, Ret(TRUE, FALSE, EmptyDict))

\* a del that is forgotten
DelNothing(d, k) == d

\* del d[k]
Del(d, k) == [x \in DOMAIN d \ {k} |-> d[x]]

\* an assignment that rebinds the dictionary to the one entry
SetAlone(d, k, v) == [x \in {k} |-> v]

\* d[k] = v
Set(d, k, v) == [x \in DOMAIN d \cup {k} |-> IF x = k THEN v ELSE d[x]]

\* the heap ids some dictionary of the service refers to
Referenced(sc, mc, ac) ==
    {sc[f] : f \in DOMAIN sc} \cup {mc[f] : f \in DOMAIN mc}
        \cup {ac[f].client : f \in DOMAIN ac}

\* a client object no dictionary refers to any more is finalized by the
\* runtime at once (reference counting), or is left as it is
Collect(heap, sc, mc, ac, finalize) ==
    [i \in DOMAIN heap |->
        IF finalize /\ i \notin Referenced(sc, mc, ac)
        THEN ClientDisconnect(heap[i])
        ELSE heap[i]]

Init ==
    /\ clients = << >>
    /\ siemens_clients = EmptyDict
    /\ schneider_clients = EmptyDict
    /\ active_connections = EmptyDict
    /\ now = 0
    /\ call = NoCall

\* no call is in progress: the last one returned to its caller
Idle == call.op = "none"

\* factory.plc_type of the Factory row, "missing" for no row, "other" for a
\* row without plc_type or plc_ip or with another vendor
PlcTypes == {"siemens", "schneider", "other", "missing"}

\* factory.plc_ip: every factory has a controller of its own
PlcIp(factory_id) == factory_id

\* what socket.connect did, recorded with the outcomes of the call
Tcp(tcp) == [k |-> tcp, data |-> << >>]

\* connect_to_factory_plcs when the vendor branch is taken
ConnectVendor(factory_id, type, tcp, o, finalize) ==
    LET client == NewClient(type, PlcIp(factory_id))
        r == IF type = "siemens" THEN S7Connect(client, tcp, o)
                                 ELSE ModbusConnect(client, tcp)
        id == Len(clients) + 1
        sc == IF type = "siemens" THEN Set(siemens_clients, factory_id, id)
                                  ELSE siemens_clients
        mc == IF type = "schneider" THEN Set(schneider_clients, factory_id, id)
                                    ELSE schneider_clients
        ac == Set(active_connections, factory_id,
                  [type |-> type, client |-> id, connected_at |-> now + 1])
    IN  IF r.ret
        THEN /\ Len(clients) < MaxClients
             /\ clients' = Collect(Append(clients, r.c), sc, mc, ac, finalize)
             /\ siemens_clients' = sc
             /\ schneider_clients' = mc
             /\ active_connections' = ac
             /\ now' = now + 1
             /\ call' = Call("connect", "done", factory_id, type, id, r.c,
                             << >>, <<Tcp(tcp), o>>, EmptyDict, r.sent,
                             FALSE, Ret(FALSE, TRUE, EmptyDict))
        ELSE /\ finalize = FALSE
             /\ call' = Call("connect", "done", factory_id, type, 0, r.c,
                             << >>, <<Tcp(tcp), o>>, EmptyDict, r.sent,
                             FALSE, Ret(FALSE, FALSE, EmptyDict))
             /\ UNCHANGED <<clients, registry, now>>

\* connect_to_factory_plcs
ConnectToFactoryPlcs(factory_id, type, tcp, o, finalize) ==
    /\ IF type \in {"siemens", "schneider"}
       THEN /\ (type = "siemens" /\ tcp = "ok") <=> (o # NoExchange)
            /\ ConnectVendor(factory_id, type, tcp, o, finalize)
       ELSE /\ tcp = "ok" /\ o = NoExchange /\ finalize = FALSE
            /\ call' = Call("connect", "done", factory_id, type, 0,
                            NoClient, << >>, <<Tcp(tcp), o>>, EmptyDict,
                            << >>, FALSE, Ret(TRUE, FALSE, EmptyDict))
            /\ UNCHANGED <<clients, registry, now>>

\* a disconnect that closes the clients and forgets to delete the entry of
\* active_connections
DisconnectKeepsEntry(factory_id) ==
    LET s == IF factory_id \in DOMAIN siemens_clients
             THEN {siemens_clients[factory_id]} ELSE {}
        m == IF factory_id \in DOMAIN schneider_clients
             THEN {schneider_clients[factory_id]} ELSE {}
    IN  /\ Idle
        /\ clients' = [i \in DOMAIN clients |->
                          IF i \in s \cup m THEN ClientDisconnect(clients[i])
                                            ELSE clients[i]]
        /\ siemens_clients' = Del(siemens_clients, factory_id)
        /\ schneider_clients' = Del(schneider_clients, factory_id)
        /\ call' = Call("disconnect", "done", factory_id, "none", 0,
                        NoClient, << >>, << >>, EmptyDict, << >>,
                        FALSE, Ret(TRUE, FALSE, EmptyDict))
        /\ UNCHANGED <<active_connections, now>>

\* disconnect_factory_plcs
DisconnectFactoryPlcs(factory_id) ==
    LET s == IF factory_id \in DOMAIN siemens_clients
             THEN {siemens_clients[factory_id]} ELSE {}
        m == IF factory_id \in DOMAIN schneider_clients
             THEN {schneider_clients[factory_id]} ELSE {}
    IN  /\ Idle
        /\ clients' = [i \in DOMAIN clients |->
                          IF i \in s \cup m THEN ClientDisconnect(clients[i])
                                            ELSE clients[i]]
        /\ siemens_clients' = Del(siemens_clients, factory_id)
        /\ schneider_clients' = Del(schneider_clients, factory_id)
        /\ active_connections' = Del(active_connections, factory_id)
        /\ call' = Call("disconnect", "done", factory_id, "none",
                        IF factory_id \in DOMAIN active_connections
                        THEN active_connections[factory_id].client ELSE 0,
                        NoClient, << >>, << >>, EmptyDict, << >>,
                        FALSE, Ret(TRUE, FALSE, EmptyDict))
        /\ UNCHANGED now

\* no except clause: the exception of the vendor reader leaves the call
ReadExceptMissing(b) == [raised |-> TRUE, ret |-> Ret(TRUE, FALSE, EmptyDict)]

\* the except clause of read_sensor_data_from_plc: what the call returns
\* when the vendor reader raised
ReadExcept(b) == [raised |-> FALSE, ret |-> Ret(TRUE, FALSE, EmptyDict)]

\* `return sensor_data if sensor_data else None`
ReadResult(sensor_data) ==
    IF DOMAIN sensor_data = {} THEN Ret(TRUE, FALSE, EmptyDict)
                               ELSE Ret(FALSE, TRUE, sensor_data)

\* read_sensor_data_from_plc up to the first iteration of the vendor loop
ReadSensorDataFromPlc(factory_id) ==
    /\ Idle
    /\ IF factory_id \notin DOMAIN active_connections
       THEN call' = Call("read", "done", factory_id, "none", 0,
                         NoClient, << >>, << >>, EmptyDict, << >>,
                         FALSE, Ret(TRUE, FALSE, EmptyDict))
       ELSE LET connection == active_connections[factory_id]
            IN  call' = Call("read", "loop", factory_id, connection.type,
                             connection.client, clients[connection.client],
                             << >>, << >>, EmptyDict, << >>, FALSE,
                             Ret(TRUE, FALSE, EmptyDict))
    /\ UNCHANGED <<clients, registry, now>>

\* one iteration of the vendor loop: the next item of sensor_config
ReadSensor(config, o) ==
    LET sensor_type == Len(call.cfg) + 1
        b0 == Batch(clients[call.client], call.sensor_data, call.sent, FALSE)
        b == IF call.type = "siemens"
             THEN SiemensSensor(b0, sensor_type, config, o)
             ELSE SchneiderSensor(b0, sensor_type, config, o)
        caught == ReadExcept(b)
    IN  /\ call.op = "read" /\ call.pc = "loop"
        /\ Len(call.cfg) < MaxSensors
        /\ SendsRequest(call.type, config) <=> (o # NoExchange)
        /\ clients[call.client].transaction_id < MaxTid
        /\ clients' = [clients EXCEPT ![call.client] = b.c]
        /\ call' = [call EXCEPT !.cfg = Append(@, config),
                                !.outs = Append(@, o),
                                !.obj = b.c,
                                !.sensor_data = b.sensor_data,
                                !.sent = b.sent,
                                !.pc = IF b.raised THEN "done" ELSE "loop",
                                !.raised = b.raised /\ caught.raised,
                                !.ret = caught.ret]
        /\ UNCHANGED <<registry, now>>

\* the end of the vendor loop and the return of read_sensor_data_from_plc
ReadReturn ==
    /\ call.op = "read" /\ call.pc = "loop"
    /\ call' = [call EXCEPT !.pc = "done", !.ret = ReadResult(call.sensor_data)]
    /\ UNCHANGED <<clients, registry, now>>

\* alert_data
Alerts ==
    [severity : {"low", "medium", "high", "critical", "urgent", ""},
     active : BOOLEAN]

\* a severity map that knows one level only
SeverityAlwaysLow(alert_data) == 1

\* severity_map.get(alert_data.get('severity', 'low'), 1)
SeverityValue(alert_data) ==
    LET severity == IF alert_data.severity = "" THEN "low"
                                                ELSE alert_data.severity
    IN  CASE severity = "low" -> 1
          [] severity = "medium" -> 2
          [] severity = "high" -> 3
          [] severity = "critical" -> 4
          [] OTHER -> 1

\* struct.pack('>HH', a, b)
PackHH(a, b) == <<a \div 256, a % 256, b \div 256, b % 256>>

\* _write_siemens_alert
WriteSiemensAlert(c, alert_data, o) ==
    S7WriteDb(c, 100, 0, PackHH(1, SeverityValue(alert_data)), o)

\* _write_schneider_alert
WriteSchneiderAlert(c, alert_data, o1, o2) ==
    LET w1 == ModbusWriteSingleRegister(c, 1000, 1, o1)
        w2 == ModbusWriteSingleRegister(w1.c, 1001, SeverityValue(alert_data), o2)
    IN  IF ~w1.ret
        THEN w1
        ELSE [c |-> w2.c, ret |-> w2.ret, sent |-> w1.sent \o w2.sent]

\* write_alert_to_plc
WriteAlertToPlc(factory_id, alert_data, o1, o2) ==
    /\ IF factory_id \notin DOMAIN active_connections
       THEN /\ o1 = NoExchange /\ o2 = NoExchange
            /\ alert_data = [severity |-> "", active |-> FALSE]
            /\ call' = Call("write", "done", factory_id, "none", 0,
                            NoClient, <<alert_data>>, <<o1, o2>>, EmptyDict,
                            << >>, FALSE, Ret(FALSE, FALSE, EmptyDict))
            /\ UNCHANGED clients
       ELSE LET connection == active_connections[factory_id]
                client == clients[connection.client]
                r == IF connection.type = "siemens"
                     THEN WriteSiemensAlert(client, alert_data, o1)
                     ELSE WriteSchneiderAlert(client, alert_data, o1, o2)
            IN  /\ o1 # NoExchange
                /\ (o2 # NoExchange) <=>
                       (connection.type = "schneider" /\ o1.k = "reply"
                            /\ ModbusParseWriteResponse(o1.data))
                /\ client.transaction_id + 1 < MaxTid
                /\ clients' = [clients EXCEPT ![connection.client] = r.c]
                /\ call' = Call("write", "done", factory_id, connection.type,
                                connection.client, r.c, <<alert_data>>,
                                <<o1, o2>>, EmptyDict, r.sent, FALSE,
                                Ret(FALSE, r.ret, EmptyDict))
    /\ UNCHANGED <<registry, now>>

\* test_plc_communication without its check of the registry: the lookup of
\* an absent factory_id raises KeyError
TestPlcCommunicationUnchecked(factory_id, o) ==
    /\ o = NoExchange
    /\ call' = Call("test", "done", factory_id, "none", 0, NoClient, << >>,
                    <<o>>, EmptyDict, << >>,
                    factory_id \notin DOMAIN active_connections,
                    Ret(FALSE, FALSE, EmptyDict))
    /\ UNCHANGED <<clients, registry, now>>

\* a test that probes the controller with a write of zeros
TestPlcCommunicationByWrite(factory_id, o) ==
    /\ IF factory_id \notin DOMAIN active_connections
       THEN /\ o = NoExchange
            /\ call' = Call("test", "done", factory_id, "none", 0,
                            NoClient, << >>, <<o>>, EmptyDict, << >>,
                            FALSE, Ret(FALSE, FALSE, EmptyDict))
            /\ UNCHANGED clients
       ELSE LET connection == active_connections[factory_id]
                client == clients[connection.client]
                r == IF connection.type = "siemens"
                     THEN S7WriteDb(client, 1, 0, Zeros(4), o)
                     ELSE ModbusWriteSingleRegister(client, 0, 0, o)
            IN  /\ o # NoExchange
                /\ client.transaction_id < MaxTid
                /\ clients' = [clients EXCEPT ![connection.client] = r.c]
                /\ call' = Call("test", "done", factory_id, connection.type,
                                connection.client, r.c, << >>, <<o>>,
                                EmptyDict, r.sent, FALSE,
                                Ret(FALSE, r.ret, EmptyDict))
    /\ UNCHANGED <<registry, now>>

\* test_plc_communication
TestPlcCommunication(factory_id, o) ==
    /\ IF factory_id \notin DOMAIN active_connections
       THEN /\ o = NoExchange
            /\ call' = Call("test", "done", factory_id, "none", 0,
                            NoClient, << >>, <<o>>, EmptyDict, << >>,
                            FALSE, Ret(FALSE, FALSE, EmptyDict))
            /\ UNCHANGED clients
       ELSE LET connection == active_connections[factory_id]
                client == clients[connection.client]
                r == IF connection.type = "siemens"
                     THEN S7ReadDb(client, 1, 0, 4, o)
                     ELSE ModbusReadHoldingRegisters(client, 0, 1, o)
            IN  /\ o # NoExchange
                /\ client.transaction_id < MaxTid
                /\ clients' = [clients EXCEPT ![connection.client] = r.c]
                /\ call' = Call("test", "done", factory_id, connection.type,
                                connection.client, r.c, << >>, <<o>>,
                                EmptyDict, r.sent, FALSE,
                                Ret(FALSE, ~r.ret.none, EmptyDict))
    /\ UNCHANGED <<registry, now>>

\* the dict get_connection_status builds from active_connections at time t
StatusOf(ac, t) ==
    [f \in DOMAIN ac |->
        [type |-> ac[f].type, connected |-> TRUE,
         connected_at |-> ac[f].connected_at, last_communication |-> t]]

\* get_connection_status
GetConnectionStatus ==
    /\ Idle
    /\ call' = Call("status", "done", "", "none", 0, NoClient, << >>, << >>,
                    EmptyDict, << >>, FALSE,
                    Ret(FALSE, TRUE, StatusOf(active_connections, now)))
    /\ UNCHANGED <<clients, registry, now>>

\* the call returns to its caller, which keeps nothing of it
Return ==
    /\ call.op # "none" /\ call.pc = "done"
    /\ call' = NoCall
    /\ UNCHANGED <<clients, registry, now>>

Connect ==
    /\ Idle
    /\ \E f \in Factories, type \in PlcTypes, tcp \in TcpOutcomes,
          o \in IsoOutcomes \cup {NoExchange}, finalize \in BOOLEAN :
           ConnectToFactoryPlcs(f, type, tcp, o, finalize)

Disconnect == Idle /\ \E f \in Factories : DisconnectFactoryPlcs(f)

ReadBegin == Idle /\ \E f \in Factories : ReadSensorDataFromPlc(f)

ReadNext ==
    /\ call.op = "read" /\ call.pc = "loop"
    /\ \E config \in SensorConfigs,
          o \in ReadOutcomes(call.type) \cup {NoExchange} :
           ReadSensor(config, o)

\* a batch of at most one sensor
ReadFirst == call.cfg = << >> /\ ReadNext

\* the connection type a call on factory f dispatches on
TypeOf(f) ==
    IF f \in DOMAIN active_connections THEN active_connections[f].type
                                       ELSE "none"

WriteAlertOf(alerts) ==
    /\ Idle
    /\ \E f \in Factories, alert_data \in alerts :
           \E o1 \in WriteOutcomes(TypeOf(f)) \cup {NoExchange},
              o2 \in WriteOutcomes(TypeOf(f)) \cup {NoExchange} :
               WriteAlertToPlc(f, alert_data, o1, o2)

\* two alerts: one with every field, one with none
WriteAlert ==
    WriteAlertOf({[severity |-> "critical", active |-> TRUE],
                  [severity |-> "", active |-> FALSE]})

TestCommunication ==
    /\ Idle
    /\ \E f \in Factories :
           \E o \in ReadOutcomes(TypeOf(f)) \cup {NoExchange} :
               TestPlcCommunication(f, o)

(***************************************************************************)
(* Spec: the service from construction, every operation of the facade,    *)
(* sensor batches of at most one sensor.                                   *)
(***************************************************************************)
Next ==
    \/ Connect
    \/ Disconnect
    \/ ReadBegin
    \/ ReadFirst
    \/ ReadReturn
    \/ WriteAlert
    \/ TestCommunication
    \/ GetConnectionStatus
    \/ Return

Spec == Init /\ [][Next]_vars

(***************************************************************************)
(* SpecRead: sensor batches of up to MaxSensors sensors, read from a       *)
(* service that has connected a Siemens factory and a Schneider factory.   *)
(***************************************************************************)
InitRead ==
    /\ clients = << [NewClient("siemens", "f1") EXCEPT !.socket = "open",
                                                       !.connected = TRUE],
                    [NewClient("schneider", "f2") EXCEPT !.socket = "open",
                                                         !.connected = TRUE] >>
    /\ siemens_clients = [f \in {"f1"} |-> 1]
    /\ schneider_clients = [f \in {"f2"} |-> 2]
    /\ active_connections =
           [f \in {"f1", "f2"} |->
               IF f = "f1"
               THEN [type |-> "siemens", client |-> 1, connected_at |-> 1]
               ELSE [type |-> "schneider", client |-> 2, connected_at |-> 2]]
    /\ now = 2
    /\ call = NoCall

NextRead ==
    \/ ReadBegin
    \/ ReadNext
    \/ ReadReturn
    \/ Return

SpecRead == InitRead /\ [][NextRead]_vars

(***************************************************************************)
(* SpecBatch: the same batches with sensor_config as the argument it is: a *)
(* dict fixed when read_sensor_data_from_plc is called.  call.cfg holds    *)
(* the whole configuration, and the items iterated so far are those with   *)
(* an entry in call.outs.                                                  *)
(***************************************************************************)
\* the sensor_config arguments: up to MaxSensors items
BatchConfigs == UNION {[1..n -> SensorConfigs] : n \in 0..MaxSensors}

\* read_sensor_data_from_plc(factory_id, machine_id, sensor_config) up to
\* the first iteration of the vendor loop
ReadBatchFromPlc(factory_id, sensor_config) ==
    /\ IF factory_id \notin DOMAIN active_connections
       THEN call' = Call("read", "done", factory_id, "none", 0,
                         NoClient, sensor_config, << >>, EmptyDict, << >>,
                         FALSE, Ret(TRUE, FALSE, EmptyDict))
       ELSE LET connection == active_connections[factory_id]
            IN  call' = Call("read", "loop", factory_id, connection.type,
                             connection.client, clients[connection.client],
                             sensor_config, << >>, EmptyDict, << >>, FALSE,
                             Ret(TRUE, FALSE, EmptyDict))
    /\ UNCHANGED <<clients, registry, now>>

\* one iteration of the vendor loop: the next item of sensor_config
BatchSensor(o) ==
    LET sensor_type == Len(call.outs) + 1
        config == call.cfg[sensor_type]
        b0 == Batch(clients[call.client], call.sensor_data, call.sent, FALSE)
        b == IF call.type = "siemens"
             THEN SiemensSensor(b0, sensor_type, config, o)
             ELSE SchneiderSensor(b0, sensor_type, config, o)
        caught == ReadExcept(b)
    IN  /\ Len(call.outs) < Len(call.cfg)
        /\ SendsRequest(call.type, config) <=> (o # NoExchange)
        /\ clients[call.client].transaction_id < MaxTid
        /\ clients' = [clients EXCEPT ![call.client] = b.c]
        /\ call' = [call EXCEPT !.outs = Append(@, o),
                                !.obj = b.c,
                                !.sensor_data = b.sensor_data,
                                !.sent = b.sent,
                                !.pc = IF b.raised THEN "done" ELSE "loop",
                                !.raised = b.raised /\ caught.raised,
                                !.ret = caught.ret]
        /\ UNCHANGED <<registry, now>>

\* the end of the vendor loop, after the last item, and the return of
\* read_sensor_data_from_plc
BatchReturn ==
    /\ call.op = "read" /\ call.pc = "loop"
    /\ Len(call.outs) = Len(call.cfg)
    /\ call' = [call EXCEPT !.pc = "done", !.ret = ReadResult(call.sensor_data)]
    /\ UNCHANGED <<clients, registry, now>>

BatchBegin ==
    /\ Idle
    /\ \E f \in Factories \cup {"f3"}, sensor_config \in BatchConfigs :
           ReadBatchFromPlc(f, sensor_config)

BatchNext ==
    /\ call.op = "read" /\ call.pc = "loop"
    /\ \E o \in ReadOutcomes(call.type) \cup {NoExchange} : BatchSensor(o)

NextBatch ==
    \/ BatchBegin
    \/ BatchNext
    \/ BatchReturn
    \/ Return

SpecBatch == InitRead /\ [][NextBatch]_vars

(***************************************************************************)
(* SpecCodec: the conversions of the sensor readers applied to payloads    *)
(* drawn from boundary bytes: batches of one recognised sensor, answered   *)
(* with a well-formed response that carries the bytes its data_type needs. *)
(***************************************************************************)
\* the bytes the payloads are made of
ByteSamples == {0, 1, 127, 128, 255}

\* the payloads of n bytes
Payloads(n) == [1..n -> ByteSamples]

\* the configs of the four conversions
CodecConfigs ==
    {config \in SensorConfigs :
        /\ "data_type" \in config.keys
        /\ config.data_type \in {"real", "int", "holding_register",
                                  "holding_register_float"}}

\* the number of payload bytes a conversion reads
PayloadSize(config) ==
    CASE config.data_type = "real" -> 4
      [] config.data_type = "int" -> 2
      [] config.data_type = "holding_register" -> 2
      [] OTHER -> 4

\* the response that carries a payload
CodecReply(type, raw) ==
    Reply(IF type = "siemens" THEN S7ReadFrame(255, Len(raw), raw)
                              ELSE ModbusReadFrame(3, Len(raw), raw))

CodecNext ==
    /\ call.op = "read" /\ call.pc = "loop" /\ call.cfg = << >>
    /\ \E config \in CodecConfigs :
           \E raw \in Payloads(PayloadSize(config)) :
               ReadSensor(config, CodecReply(call.type, raw))

NextCodec ==
    \/ ReadBegin
    \/ CodecNext
    \/ ReadReturn
    \/ Return

SpecCodec == InitRead /\ [][NextCodec]_vars

(***************************************************************************)
(* SpecOps: every operation on the connections of that service, with every *)
(* alert, until the factories are disconnected.                            *)
(***************************************************************************)
WriteAlertAll == WriteAlertOf(Alerts)

NextOps ==
    \/ ReadBegin
    \/ ReadNext
    \/ ReadReturn
    \/ WriteAlertAll
    \/ TestCommunication
    \/ Disconnect
    \/ Return

SpecOps == InitRead /\ [][NextOps]_vars

(***************************************************************************)
(* SpecWait: the calls of the facade with a controller that may stop       *)
(* answering.  A call is entered (pc "called", or "loop" for a batch) and  *)
(* then runs to its return when the socket operations complete; when the   *)
(* controller says nothing (pc "waiting", "loop_waiting") the call leaves  *)
(* the socket operation it is in only by the timeout of its socket.        *)
(***************************************************************************)
\* a socket that is left in blocking mode
SocketBlocking(type) == 0

\* self.socket.settimeout(10): the timeout, in seconds, of every operation
\* on the socket of a client; 0 stands for None, a socket that blocks
SocketTimeout(type) == 10

\* the call performs socket operations
UsesSocket(c) ==
    IF c.op = "connect" THEN c.type \in {"siemens", "schneider"}
                        ELSE c.type # "none"

\* the transaction ids the call may use are within the bound of the model
WithinTid(f, n) ==
    f \in DOMAIN active_connections
        => clients[active_connections[f].client].transaction_id + n <= MaxTid

\* a call of connect_to_factory_plcs, write_alert_to_plc or
\* test_plc_communication is entered
WaitCall(op, factory_id, type) ==
    /\ type = IF op = "connect" THEN type ELSE TypeOf(factory_id)
    /\ op = "connect" => type \in PlcTypes
    /\ WithinTid(factory_id, IF op = "write" THEN 2 ELSE 1)
    /\ call' = Call(op, "called", factory_id, type, 0, NoClient, << >>,
                    << >>, EmptyDict, << >>, FALSE,
                    Ret(TRUE, FALSE, EmptyDict))
    /\ UNCHANGED <<clients, registry, now>>

\* the factory the calls are about
WaitFactories == {"f1"}

\* the sensor_config arguments: items a Siemens reader and a Schneider
\* reader recognise
WaitConfigs ==
    UNION {[1..n -> {config \in SensorConfigs :
                        /\ "data_type" \in config.keys
                        /\ config.data_type \in {"real", "holding_register"}
                        /\ "address" \in config.keys}]
              : n \in 0..MaxSensors}

WaitBegin ==
    /\ Idle
    /\ \E op \in {"connect", "write", "test"}, f \in WaitFactories,
          type \in PlcTypes \cup {"none"} : WaitCall(op, f, type)

WaitBeginRead ==
    /\ Idle
    /\ \E f \in WaitFactories, sensor_config \in WaitConfigs :
           /\ WithinTid(f, Len(sensor_config))
           /\ ReadBatchFromPlc(f, sensor_config)

\* the controller stops answering: the call waits in a socket operation
PeerSilent ==
    /\ call.op # "none" /\ UsesSocket(call)
    /\ \/ call.pc = "called" /\ call' = [call EXCEPT !.pc = "waiting"]
       \/ /\ call.pc = "loop" /\ Len(call.outs) < Len(call.cfg)
          /\ SendsRequest(call.type, call.cfg[Len(call.outs) + 1])
          /\ call' = [call EXCEPT !.pc = "loop_waiting"]
    /\ UNCHANGED <<clients, registry, now>>

\* what a socket operation that completes can do: anything but time out
Completed(outcomes) == (outcomes \ {SockTimeout}) \cup {NoExchange}

\* what an exchange of a batch that completes can do: a response that is
\* decoded, one that is refused, one whose payload has the wrong length, or
\* a socket error
LoopOutcomes(type) ==
    {SockError, NoExchange}
        \cup {Reply(b) : b \in IF type = "siemens"
                                THEN {S7Ok4, S7Ok2, S7Rejected}
                                ELSE {MbOk1, MbException}}

\* the socket operations of the call complete and the call returns
Answered ==
    /\ call.pc = "called"
    /\ \/ /\ call.op = "connect"
          /\ \E tcp \in {"ok", "refused"}, o \in Completed(IsoOutcomes),
                finalize \in BOOLEAN :
                 ConnectToFactoryPlcs(call.fid, call.type, tcp, o, finalize)
       \/ /\ call.op = "write"
          /\ \E alert_data \in {[severity |-> "critical", active |-> TRUE],
                                 [severity |-> "", active |-> FALSE]},
                o1 \in Completed(WriteOutcomes(call.type)),
                o2 \in Completed(WriteOutcomes(call.type)) :
                 WriteAlertToPlc(call.fid, alert_data, o1, o2)
       \/ /\ call.op = "test"
          /\ \E o \in Completed(ReadOutcomes(call.type)) :
                 TestPlcCommunication(call.fid, o)

\* the socket operation the call waits in raises socket.timeout
TimedOut ==
    /\ call.pc = "waiting"
    /\ SocketTimeout(call.type) > 0
    /\ \/ /\ call.op = "connect"
          /\ \E tcp \in {"ok", "timeout"}, o \in {SockTimeout, NoExchange} :
                 ConnectToFactoryPlcs(call.fid, call.type, tcp, o, FALSE)
       \/ /\ call.op = "write"
          /\ \E o1 \in {SockTimeout, Reply(MbWriteAck)},
                o2 \in {SockTimeout, NoExchange} :
                 /\ SockTimeout \in {o1, o2}
                 /\ WriteAlertToPlc(call.fid,
                                    [severity |-> "critical", active |-> TRUE],
                                    o1, o2)
       \/ /\ call.op = "test"
          /\ TestPlcCommunication(call.fid, SockTimeout)

\* an iteration of a batch whose exchange completes
LoopAnswered ==
    /\ call.op = "read" /\ call.pc = "loop"
    /\ \E o \in LoopOutcomes(call.type) : BatchSensor(o)

\* an iteration of a batch whose exchange times out
LoopTimedOut ==
    /\ call.op = "read" /\ call.pc = "loop_waiting"
    /\ SocketTimeout(call.type) > 0
    /\ BatchSensor(SockTimeout)

NextWait ==
    \/ WaitBegin
    \/ WaitBeginRead
    \/ PeerSilent
    \/ Answered
    \/ TimedOut
    \/ LoopAnswered
    \/ LoopTimedOut
    \/ BatchReturn
    \/ Return

\* the thread of a call runs on, and an operation on a socket with a
\* timeout ends when the timeout expires; nothing makes the controller
\* answer
SpecWait ==
    /\ Init /\ [][NextWait]_vars
    /\ WF_vars(Answered) /\ WF_vars(TimedOut)
    /\ WF_vars(LoopAnswered) /\ WF_vars(LoopTimedOut) /\ WF_vars(BatchReturn)

(***************************************************************************)
(* SpecClient: the methods of the two vendor clients called directly, in   *)
(* any order, on one client object of each vendor, with every outcome of   *)
(* the socket and arguments the request builders accept and reject.        *)
(***************************************************************************)
InitClient ==
    /\ clients = <<NewClient("siemens", "f1"), NewClient("schneider", "f2")>>
    /\ siemens_clients = EmptyDict
    /\ schneider_clients = EmptyDict
    /\ active_connections = EmptyDict
    /\ now = 0
    /\ call = NoCall

\* the arguments of read_db(db_number, start, size)
S7ReadArgs ==
    {[db_number |-> 1, start |-> 0, size |-> 4],
     [db_number |-> 1, start |-> 4, size |-> 2],
     [db_number |-> 300, start |-> 0, size |-> 4]}

\* the arguments of write_db(db_number, start, data)
S7WriteArgs ==
    {[db_number |-> 100, start |-> 0, data |-> <<0, 1, 0, 4>>],
     [db_number |-> 300, start |-> 0, data |-> <<0, 1>>]}

\* the arguments of read_holding_registers(address, count)
ModbusReadArgs ==
    {[address |-> 0, count |-> 1], [address |-> 1002, count |-> 2],
     [address |-> 70000, count |-> 1]}

\* the arguments of write_single_register(address, value)
ModbusWriteArgs ==
    {[address |-> 1000, value |-> 1], [address |-> 1001, value |-> 70000]}

\* the arguments of write_multiple_registers(address, values)
ModbusWriteMultipleArgs ==
    {[address |-> 1000, values |-> <<1, 4>>],
     [address |-> 1000, values |-> <<70000>>]}

\* what the peer can do to a read called on the client directly: also a
\* Modbus response with an odd byte count
ClientReadOutcomes(type) ==
    ReadOutcomes(type) \cup IF type = "schneider" THEN {Reply(MbOdd)} ELSE {}

\* the record of a call of a client method
ClientCall(op, i, args, outs, r, ret) ==
    Call(op, "done", "", clients[i].kind, i, r.c, <<args>>, outs, EmptyDict,
         r.sent, r.raised, ret)

\* client.connect()
ClientConnect(i, tcp, o) ==
    LET c == clients[i]
        r == IF c.kind = "siemens" THEN S7Connect(c, tcp, o)
                                   ELSE ModbusConnect(c, tcp)
    IN  /\ Idle
        /\ (c.kind = "siemens" /\ tcp = "ok") <=> (o # NoExchange)
        /\ clients' = [clients EXCEPT ![i] = r.c]
        /\ call' = ClientCall("client.connect", i, << >>, <<Tcp(tcp), o>>, r,
                              Ret(FALSE, r.ret, << >>))
        /\ UNCHANGED <<registry, now>>

\* client.disconnect()
ClientDisconnectCall(i, close) ==
    LET c == clients[i]
        r == DisconnectMethod(c, close)
    IN  /\ Idle
        /\ c.socket = "None" => close = "ok"
        /\ clients' = [clients EXCEPT ![i] = r.c]
        /\ call' = ClientCall("client.disconnect", i, << >>, <<Tcp(close)>>, r,
                              Ret(TRUE, FALSE, << >>))
        /\ UNCHANGED <<registry, now>>

\* client.read_db(...) / client.read_holding_registers(...)
ClientReadCall(i, args, o) ==
    LET c == clients[i]
        r == IF c.kind = "siemens"
             THEN S7ReadDb(c, args.db_number, args.start, args.size, o)
             ELSE ModbusReadHoldingRegisters(c, args.address, args.count, o)
        builds == IF c.kind = "siemens"
                  THEN ~S7BuildReadRaises(args.db_number, args.start, args.size)
                  ELSE ~ModbusBuildRaises(c.transaction_id + 1, args.address,
                                          args.count)
    IN  /\ Idle
        /\ args \in IF c.kind = "siemens" THEN S7ReadArgs ELSE ModbusReadArgs
        /\ (c.connected /\ builds) <=> (o # NoExchange)
        /\ clients' = [clients EXCEPT ![i] = r.c]
        /\ call' = ClientCall("client.read", i, args, <<o>>, r,
                              Ret(r.ret.none, ~r.ret.none, r.ret.data))
        /\ UNCHANGED <<registry, now>>

\* the same within the bound of the model on the transaction id
ClientRead(i, args, o) ==
    /\ clients[i].transaction_id < MaxTid
    /\ ClientReadCall(i, args, o)

\* client.write_db(...) / client.write_single_register(...)
ClientWriteCall(i, args, o) ==
    LET c == clients[i]
        r == IF c.kind = "siemens"
             THEN S7WriteDb(c, args.db_number, args.start, args.data, o)
             ELSE ModbusWriteSingleRegister(c, args.address, args.value, o)
        builds == IF c.kind = "siemens"
                  THEN ~S7BuildWriteRaises(args.db_number, args.start, args.data)
                  ELSE ~ModbusBuildRaises(c.transaction_id + 1, args.address,
                                          args.value)
    IN  /\ Idle
        /\ args \in IF c.kind = "siemens" THEN S7WriteArgs ELSE ModbusWriteArgs
        /\ (c.connected /\ builds) <=> (o # NoExchange)
        /\ clients' = [clients EXCEPT ![i] = r.c]
        /\ call' = ClientCall("client.write", i, args, <<o>>, r,
                              Ret(FALSE, r.ret, << >>))
        /\ UNCHANGED <<registry, now>>

\* the same within the bound of the model on the transaction id
ClientWrite(i, args, o) ==
    /\ clients[i].transaction_id < MaxTid
    /\ ClientWriteCall(i, args, o)

\* client.write_multiple_registers(...)
ClientWriteMultipleCall(i, args, o) ==
    LET c == clients[i]
        r == ModbusWriteMultipleRegisters(c, args.address, args.values, o)
        builds == ~ModbusBuildMultipleRaises(c.transaction_id + 1,
                                             args.address, args.values)
    IN  /\ Idle
        /\ c.kind = "schneider"
        /\ (c.connected /\ builds) <=> (o # NoExchange)
        /\ clients' = [clients EXCEPT ![i] = r.c]
        /\ call' = ClientCall("client.write_multiple", i, args, <<o>>, r,
                              Ret(FALSE, r.ret, << >>))
        /\ UNCHANGED <<registry, now>>

\* the same within the bound of the model on the transaction id
ClientWriteMultiple(i, args, o) ==
    /\ clients[i].transaction_id < MaxTid
    /\ ClientWriteMultipleCall(i, args, o)

NextClient ==
    \/ \E i \in DOMAIN clients, tcp \in TcpOutcomes,
          o \in IsoOutcomes \cup {NoExchange} : ClientConnect(i, tcp, o)
    \/ \E i \in DOMAIN clients, close \in {"ok", "error"} :
           ClientDisconnectCall(i, close)
    \/ \E i \in DOMAIN clients, args \in S7ReadArgs \cup ModbusReadArgs :
           \E o \in ClientReadOutcomes(clients[i].kind) \cup {NoExchange} :
               ClientRead(i, args, o)
    \/ \E i \in DOMAIN clients, args \in S7WriteArgs \cup ModbusWriteArgs :
           \E o \in WriteOutcomes(clients[i].kind) \cup {NoExchange} :
               ClientWrite(i, args, o)
    \/ \E i \in DOMAIN clients, args \in ModbusWriteMultipleArgs :
           \E o \in WriteOutcomes("schneider") \cup {NoExchange} :
               ClientWriteMultiple(i, args, o)
    \/ Return

SpecClient == InitClient /\ [][NextClient]_vars

(***************************************************************************)
(* SpecLate: the same methods on a Modbus client that has been connected   *)
(* for a long time: its transaction id is about to leave the 16 bits of    *)
(* the wire field.                                                         *)
(***************************************************************************)
\* the largest value of the transaction id field: struct format 'H'
MaxWireId == 65535

\* a Siemens client, and a Modbus client after MaxWireId - 1 requests
InitLate ==
    /\ clients = <<NewClient("siemens", "f1"),
                   [NewClient("schneider", "f2") EXCEPT
                        !.socket = "open", !.connected = TRUE,
                        !.transaction_id = MaxWireId - 1]>>
    /\ siemens_clients = EmptyDict
    /\ schneider_clients = EmptyDict
    /\ active_connections = EmptyDict
    /\ now = 0
    /\ call = NoCall

\* the model follows the client for MaxTid requests past the field
Late(i) == clients[i].transaction_id < MaxWireId + MaxTid

NextLate ==
    \/ \E i \in DOMAIN clients, tcp \in TcpOutcomes,
          o \in IsoOutcomes \cup {NoExchange} : ClientConnect(i, tcp, o)
    \/ \E i \in DOMAIN clients, close \in {"ok", "error"} :
           ClientDisconnectCall(i, close)
    \/ \E i \in DOMAIN clients, args \in S7ReadArgs \cup ModbusReadArgs :
           \E o \in ClientReadOutcomes(clients[i].kind) \cup {NoExchange} :
               Late(i) /\ ClientReadCall(i, args, o)
    \/ \E i \in DOMAIN clients, args \in S7WriteArgs \cup ModbusWriteArgs :
           \E o \in WriteOutcomes(clients[i].kind) \cup {NoExchange} :
               Late(i) /\ ClientWriteCall(i, args, o)
    \/ \E i \in DOMAIN clients, args \in ModbusWriteMultipleArgs :
           \E o \in WriteOutcomes("schneider") \cup {NoExchange} :
               Late(i) /\ ClientWriteMultipleCall(i, args, o)
    \/ Return

SpecLate == InitLate /\ [][NextLate]_vars

(***************************************************************************)
(* SpecConc: two callers of test_plc_communication at once, as two request *)
(* threads of the web server run them.  Here `call` holds the position of  *)
(* each caller and the traffic of each socket: the requests sent whose     *)
(* response no caller has received yet, in the order they were sent.       *)
(***************************************************************************)
\* the request threads
Callers == {1, 2}

\* the calls in progress: per caller its position, its factory_id and the
\* caller whose request the response it received answers (0: none yet); per
\* client the requests in flight on its socket
Calls(pc, fid, got, wire) ==
    [op |-> "callers", pc |-> pc, fid |-> fid, got |-> got, wire |-> wire]

\* a request in flight: who sent it, the transaction id it carries, and
\* whether the PLC has answered it
InFlight(by, tid, answered) == [by |-> by, tid |-> tid, answered |-> answered]

\* the client a caller got from active_connections
ClientOf(t) == active_connections[call.fid[t]].client

InitConc ==
    /\ clients = << [NewClient("siemens", "f1") EXCEPT !.socket = "open",
                                                       !.connected = TRUE],
                    [NewClient("schneider", "f2") EXCEPT !.socket = "open",
                                                         !.connected = TRUE] >>
    /\ siemens_clients = [f \in {"f1"} |-> 1]
    /\ schneider_clients = [f \in {"f2"} |-> 2]
    /\ active_connections =
           [f \in {"f1", "f2"} |->
               IF f = "f1"
               THEN [type |-> "siemens", client |-> 1, connected_at |-> 1]
               ELSE [type |-> "schneider", client |-> 2, connected_at |-> 2]]
    /\ now = 2
    /\ call = Calls([t \in Callers |-> "idle"], [t \in Callers |-> ""],
                    [t \in Callers |-> 0], [i \in {1, 2} |-> << >>])

\* test_plc_communication up to the try block of the client's read: the
\* registry lookup and `if not self.connected`
CallerBegin(t, factory_id) ==
    /\ call.pc[t] = "idle"
    /\ factory_id \in DOMAIN active_connections
    /\ clients[active_connections[factory_id].client].connected
    /\ call' = [call EXCEPT
                   !.fid[t] = factory_id,
                   !.pc[t] = IF active_connections[factory_id].type = "schneider"
                             THEN "inc" ELSE "send"]
    /\ UNCHANGED <<clients, registry, now>>

\* self.transaction_id += 1
CallerInc(t) ==
    /\ call.pc[t] = "inc"
    /\ clients[ClientOf(t)].transaction_id < MaxTid
    /\ clients' = [clients EXCEPT ![ClientOf(t)].transaction_id = @ + 1]
    /\ call' = [call EXCEPT !.pc[t] = "send"]
    /\ UNCHANGED <<registry, now>>

\* request = self._build_...(...); self.socket.send(request)
CallerSend(t) ==
    /\ call.pc[t] = "send"
    /\ call' = [call EXCEPT
                   !.wire[ClientOf(t)] =
                       Append(@, InFlight(t, clients[ClientOf(t)].transaction_id,
                                          FALSE)),
                   !.pc[t] = "recv"]
    /\ UNCHANGED <<clients, registry, now>>

\* the PLC answers the oldest request it has not answered
PeerAnswer(i) ==
    /\ \E k \in DOMAIN call.wire[i] :
           /\ ~call.wire[i][k].answered
           /\ \A j \in 1..(k - 1) : call.wire[i][j].answered
           /\ call' = [call EXCEPT !.wire[i][k].answered = TRUE]
    /\ UNCHANGED <<clients, registry, now>>

\* response = self.socket.recv(1024): the first response on the socket,
\* then the parse and the return of test_plc_communication
CallerRecv(t) ==
    /\ call.pc[t] = "recv"
    /\ call.wire[ClientOf(t)] # << >>
    /\ Head(call.wire[ClientOf(t)]).answered
    /\ call' = [call EXCEPT !.got[t] = Head(call.wire[ClientOf(t)]).by,
                            !.wire[ClientOf(t)] = Tail(@),
                            !.pc[t] = "done"]
    /\ UNCHANGED <<clients, registry, now>>

\* the route returns its response to the caller
CallerReturn(t) ==
    /\ call.pc[t] = "done"
    /\ call' = [call EXCEPT !.pc[t] = "idle", !.fid[t] = "", !.got[t] = 0]
    /\ UNCHANGED <<clients, registry, now>>

NextConc ==
    \/ \E t \in Callers, f \in Factories : CallerBegin(t, f)
    \/ \E t \in Callers : CallerInc(t)
    \/ \E t \in Callers : CallerSend(t)
    \/ \E i \in DOMAIN clients : PeerAnswer(i)
    \/ \E t \in Callers : CallerRecv(t)
    \/ \E t \in Callers : CallerReturn(t)

SpecConc == InitConc /\ [][NextConc]_vars

(***************************************************************************)
(* Properties of the connection registry (Spec)                            *)
(***************************************************************************)
\* the call that a step completes, or begins, from the idle service
Begins(op) == Idle /\ call'.op = op

Registered(f) == f \in DOMAIN active_connections

\* the heap ids of the client objects built for factory f whose socket is open
OpenTransportsIn(heap, f) ==
    {i \in DOMAIN heap :
        heap[i].ip_address = PlcIp(f) /\ heap[i].socket = "open"}
OpenTransports(f) == OpenTransportsIn(clients, f)

\* the peer refused the connection: TCP connect failed or, for S7, the reply
\* to the ISO connection request is not an acceptance
PeerRefused(type, outs) ==
    \/ outs[1].k # "ok"
    \/ type = "siemens" /\ outs[2] # Reply(IsoAccepted)

\* C1: connect on a factory_id that already has a registry entry reports
\* success whatever the PLC answers and is a no-op: the registry keeps the
\* same client and the same connected_at.
C1_ConnectIdempotent ==
    [][(Begins("connect") /\ Registered(call'.fid)
            /\ call'.type = active_connections[call'.fid].type)
        => (/\ ~call'.ret.none /\ call'.ret.ok
            /\ active_connections' = active_connections
            /\ siemens_clients' = siemens_clients
            /\ schneider_clients' = schneider_clients)]_vars

\* C2: a connect that the peer refuses, for a factory_id in none of the three
\* dictionaries, leaves it in none of them, reports False for it, and the
\* client it built holds no open socket.
C2_RegisterOnlyOnSuccess ==
    [][(/\ Begins("connect")
        /\ call'.type \in {"siemens", "schneider"}
        /\ PeerRefused(call'.type, call'.outs)
        /\ call'.fid \notin DOMAIN active_connections
                \cup DOMAIN siemens_clients \cup DOMAIN schneider_clients)
        => (/\ call'.fid \notin DOMAIN active_connections'
                    \cup DOMAIN siemens_clients' \cup DOMAIN schneider_clients'
            /\ ~call'.ret.none /\ ~call'.ret.ok
            /\ call'.obj.socket = "None" /\ ~call'.obj.connected
            /\ UNCHANGED <<clients, registry>>)]_vars

\* a refused S7 handshake on a factory that stays unregistered, while the
\* other factory is connected
C2_Witness ==
    /\ call.op = "connect" /\ call.type = "siemens"
    /\ call.outs = <<Tcp("ok"), Reply(IsoRejected)>>
    /\ ~Registered(call.fid)
    /\ \E g \in Factories : Registered(g)

\* C3: for every factory_id at most one transport has an open socket, and it
\* is the client of the factory's registry entry.
C3_OneConnectionPerFactory ==
    \A f \in Factories :
        /\ Cardinality(OpenTransports(f)) <= 1
        /\ \A i \in OpenTransports(f) :
               Registered(f) /\ active_connections[f].client = i

\* C4: disconnect closes the socket of the registered client and removes the
\* factory_id from the registry; on an absent factory_id it changes nothing;
\* it never raises, and afterwards the factory_id has no registry entry.
C4_Disconnect ==
    [][Begins("disconnect")
        => (/\ ~call'.raised
            /\ call'.fid \notin DOMAIN active_connections'
                    \cup DOMAIN siemens_clients' \cup DOMAIN schneider_clients'
            /\ Registered(call'.fid) =>
                   LET c == clients'[active_connections[call'.fid].client]
                   IN  c.socket = "None" /\ ~c.connected
            /\ (call'.fid \notin DOMAIN active_connections
                    \cup DOMAIN siemens_clients \cup DOMAIN schneider_clients)
                   => UNCHANGED <<clients, registry>>)]_vars

\* a disconnect that closed the client of a registered factory
C4_Witness ==
    /\ call.op = "disconnect" /\ call.client # 0
    /\ clients[call.client].socket = "None"
    /\ ~Registered(call.fid)

\* C5: read, write and test on a factory_id without an ActiveConnection
\* report failure, do not raise, send nothing and leave the registry and the
\* clients as they are.
C5_NotConnected ==
    [][(\E op \in {"read", "write", "test"} : Begins(op)
            /\ ~Registered(call'.fid))
        => (/\ call'.pc = "done" /\ ~call'.raised
            /\ call'.op = "read" => call'.ret.none
            /\ call'.op \in {"write", "test"} => ~call'.ret.ok
            /\ call'.sent = << >>
            /\ UNCHANGED <<clients, registry>>)]_vars

\* a failed test on an unregistered factory while the other one is connected
C5_Witness ==
    /\ call.op = "test" /\ call.pc = "done"
    /\ ~Registered(call.fid) /\ ~call.ret.ok
    /\ \E g \in Factories : Registered(g)

\* C10: after a read, write or test on a connected factory in which the
\* socket timed out or raised, the operation reported failure, the client is
\* disconnected and the factory_id has no registry entry.
C10_TornDownOnSocketError ==
    (/\ call.op \in {"read", "write", "test"} /\ call.pc = "done"
     /\ call.client # 0
     /\ \E i \in DOMAIN call.outs : call.outs[i] \in {SockTimeout, SockError})
    => (/\ ~Registered(call.fid)
        /\ clients[call.client].socket = "None"
        /\ ~clients[call.client].connected)

\* what the service holds for factory f: its entry in each dictionary (the
\* empty set when it has none) and the client objects those entries name
EntriesOf(sc, mc, ac, f) ==
    [siemens |-> IF f \in DOMAIN sc THEN {sc[f]} ELSE {},
     schneider |-> IF f \in DOMAIN mc THEN {mc[f]} ELSE {},
     active |-> IF f \in DOMAIN ac THEN {ac[f]} ELSE {}]
ClientsOf(sc, mc, ac, f) ==
    (IF f \in DOMAIN sc THEN {sc[f]} ELSE {})
        \cup (IF f \in DOMAIN mc THEN {mc[f]} ELSE {})
        \cup (IF f \in DOMAIN ac THEN {ac[f].client} ELSE {})

\* C15: a step of an operation on factory a (connect, disconnect, read,
\* write, test; succeeding or failing) leaves, for every other factory b, b's
\* entries in the registry and b's client objects (connected, socket,
\* transaction_id) as they were.
C15_FactoriesIndependent ==
    [][\A b \in Factories :
          (call' # call /\ call'.op # "none" /\ call'.fid # b)
          => /\ EntriesOf(siemens_clients', schneider_clients',
                          active_connections', b)
                  = EntriesOf(siemens_clients, schneider_clients,
                              active_connections, b)
             /\ \A i \in ClientsOf(siemens_clients, schneider_clients,
                                   active_connections, b) :
                    clients'[i] = clients[i]]_vars

\* a disconnect that closed the client of one factory while another factory
\* is registered with a Modbus client that has made requests
C15_Witness ==
    /\ call.op = "disconnect" /\ call.client # 0
    /\ clients[call.client].socket = "None"
    /\ \E b \in Factories \ {call.fid} :
           /\ Registered(b) /\ active_connections[b].type = "schneider"
           /\ clients[active_connections[b].client].connected
           /\ clients[active_connections[b].client].transaction_id > 0

\* C16: in every reachable state the status mapping has exactly the
\* registered factory_ids as keys, each with the vendor kind and connected_at
\* of its entry, and every factory it reports connected has a client whose
\* connected flag is true and whose socket is open; get_connection_status
\* returns that mapping.
C16_StatusTruthful ==
    LET status == StatusOf(active_connections, now)
    IN  /\ DOMAIN status = {f \in Factories : Registered(f)}
        /\ \A f \in DOMAIN status :
               /\ status[f].type = active_connections[f].type
               /\ status[f].connected_at = active_connections[f].connected_at
               /\ status[f].connected =>
                      LET c == clients[active_connections[f].client]
                      IN  c.connected /\ c.socket = "open"
        /\ call.op = "status" => ~call.raised /\ call.ret.data = status

\* a status call that lists one factory only, after the client of another
\* connection has been disconnected
C16_Witness ==
    /\ call.op = "status" /\ Cardinality(DOMAIN call.ret.data) = 1
    /\ \E i \in DOMAIN clients : ~clients[i].connected

(***************************************************************************)
(* Properties of the sensor mapper (SpecRead)                              *)
(***************************************************************************)
\* a read call on a connected factory that has returned
ReadDone == call.op = "read" /\ call.pc = "done" /\ call.client # 0

\* the config lacks a vendor-required address field or names a data_type
\* the vendor reader does not know
ConfigError(type, config) ==
    IF type = "siemens"
    THEN \/ "db_number" \notin config.keys
         \/ "address" \notin config.keys
         \/ "data_type" \in config.keys /\ config.data_type \notin {"real", "int"}
    ELSE \/ "address" \notin config.keys
         \/ "data_type" \in config.keys
                /\ config.data_type \notin {"holding_register",
                                            "holding_register_float"}

\* the number of payload bytes the data_type of a Siemens config needs
Required(config) ==
    IF "data_type" \in config.keys /\ config.data_type = "int" THEN 2 ELSE 4

\* the read of this sensor succeeded: the peer answered with a well-formed
\* response carrying the data the data_type needs
Good(type, config, o) ==
    /\ ~ConfigError(type, config)
    /\ IF type = "siemens"
       THEN o = Reply(IF Required(config) = 4 THEN S7Ok4 ELSE S7Ok2)
       ELSE IF "data_type" \in config.keys
                  /\ config.data_type = "holding_register_float"
            THEN o = Reply(MbOk2)
            ELSE o \in {Reply(MbOk1), Reply(MbOk2)}

\* a Siemens response with status byte 0xFF that carries, completely, a
\* payload whose declared length is not the size requested
Mismatch(type, config, o) ==
    /\ type = "siemens" /\ ~ConfigError(type, config)
    /\ o.k = "reply" /\ Len(o.data) >= 25 /\ At(o.data, 21) = 255
    /\ LET declared == At(o.data, 23) * 256 + At(o.data, 24)
       IN  declared # Required(config) /\ Len(o.data) >= 25 + declared

Sensors == 1..Len(call.cfg)
GoodSensors == {i \in Sensors : Good(call.type, call.cfg[i], call.outs[i])}
MismatchSensors ==
    {i \in Sensors : Mismatch(call.type, call.cfg[i], call.outs[i])}
ReturnedSensors == DOMAIN call.ret.data

\* C6: in a batch whose reads fail (timeout, socket error, rejected or short
\* response) or succeed, the result holds exactly the sensor_types whose read
\* succeeded, and is None when none did; until the loop ends the dict built
\* so far holds exactly those.
C6_FailedReadDoesNotAbort ==
    (call.op = "read" /\ call.client # 0 /\ MismatchSensors = {})
    => /\ DOMAIN call.sensor_data = GoodSensors
       /\ call.pc = "done" =>
              IF GoodSensors = {} THEN call.ret.none
              ELSE ~call.ret.none /\ ReturnedSensors = GoodSensors

\* a batch of two whose first read timed out and whose second succeeded
C6_Witness ==
    /\ ReadDone /\ Len(call.cfg) = 2
    /\ call.outs[1] = SockTimeout /\ ~ConfigError(call.type, call.cfg[1])
    /\ GoodSensors = {2} /\ ReturnedSensors = {2}

\* C7: a Siemens response with status 0xFF and a payload of the wrong length
\* fails that sensor only: it is absent from the result, and every sensor of
\* the batch that was read successfully is returned.
C7_DecodeFailureIsLocal ==
    (ReadDone /\ call.type = "siemens")
    => /\ MismatchSensors \cap ReturnedSensors = {}
       /\ GoodSensors \subseteq ReturnedSensors

\* C8: read_sensors never raises; it returns None or a dict whose keys are
\* configured sensor_types, each with a numeric value.
C8_ReadNeverRaises ==
    call.op = "read"
    => /\ ~call.raised
       /\ call.pc = "done" =>
              IF call.ret.none THEN ReturnedSensors = {}
              ELSE /\ ReturnedSensors # {} /\ ReturnedSensors \subseteq Sensors
                   /\ \A k \in ReturnedSensors :
                          /\ call.ret.data[k].type \in {"float", "int"}
                          /\ call.ret.data[k].v \in Int
                          /\ call.ret.data[k].den \in {1, 10}

\* a batch in which decoding raised inside the vendor reader, returned as None
C8_Witness ==
    /\ ReadDone /\ ~call.raised /\ call.ret.none
    /\ \E i \in MismatchSensors : At(call.outs[i].data, 24) # 0

\* C9: a sensor whose config is in error is skipped: its iteration sends no
\* request, adds nothing to the result and leaves the client as it is, and
\* the loop goes on to the next sensor; it is absent from what is returned.
C9_ConfigErrorSkipped ==
    [][(call.op = "read" /\ call.pc = "loop")
        => /\ (Len(call'.cfg) = Len(call.cfg) + 1
                  /\ ConfigError(call.type, call'.cfg[Len(call'.cfg)]))
              => /\ call'.sent = call.sent
                 /\ call'.sensor_data = call.sensor_data
                 /\ call'.pc = "loop"
                 /\ clients' = clients
           /\ \A i \in 1..Len(call'.cfg) :
                  ConfigError(call.type, call'.cfg[i])
                      => i \notin DOMAIN call'.sensor_data
                                     \cup DOMAIN call'.ret.data]_vars

\* a batch of an unknown data_type followed by a good read, returned with the
\* second sensor only after one request
C9_Witness ==
    /\ ReadDone /\ Len(call.cfg) = 2
    /\ ConfigError(call.type, call.cfg[1])
    /\ "data_type" \in call.cfg[1].keys /\ "address" \in call.cfg[1].keys
    /\ ReturnedSensors = {2} /\ Len(call.sent) = 1

(***************************************************************************)
(* Properties of a batch of a given configuration (SpecBatch)              *)
(***************************************************************************)
\* the client call a recognised sensor entry maps to
OperationOf(type, config, tid) ==
    IF type = "siemens"
    THEN Request("read_db", config.db_number, config.address,
                 Required(config), << >>, 0)
    ELSE Request("read_holding_registers", 1, config.address,
                 IF "data_type" \in config.keys
                        /\ config.data_type = "holding_register_float"
                 THEN 2 ELSE 1,
                 << >>, tid)

\* the 16-bit words a Modbus read response brings back
WordsBack(o) ==
    IF o.k = "reply" /\ Len(o.data) >= 9 /\ At(o.data, 7) < 128
           /\ Len(o.data) >= 9 + At(o.data, 8)
    THEN [i \in 1..(At(o.data, 8) \div 2) |->
             At(o.data, 7 + 2 * i) * 256 + At(o.data, 8 + 2 * i)]
    ELSE << >>

\* the iteration from the unprimed to the primed state maps its sensor
\* entry to its wire operation: one request of the size or count of the
\* data_type when the entry is recognised (none reaches the wire when send
\* raises), no request otherwise; a holding_register is its first word
\* times scale_factor, a holding_register_float is taken exactly when two
\* words came back
SensorMapsToOneOperation ==
    LET i == Len(call'.outs)
        config == call.cfg[i]
        o == call'.outs[i]
        new == SubSeq(call'.sent, Len(call.sent) + 1, Len(call'.sent))
        float == "data_type" \in config.keys
                     /\ config.data_type = "holding_register_float"
    IN  /\ call'.sent = call.sent \o new
        /\ IF ConfigError(call.type, config)
           THEN new = << >> /\ clients' = clients
           ELSE new = Wire(o, OperationOf(call.type, config,
                                          clients'[call.client].transaction_id))
        /\ (call.type = "schneider" /\ ~ConfigError(call.type, config))
           => IF float
              THEN /\ i \in DOMAIN call'.sensor_data <=> Len(WordsBack(o)) = 2
                   /\ i \in DOMAIN call'.sensor_data
                          => call'.sensor_data[i] =
                                 FloatBits(WordsBack(o)[1] * 65536
                                               + WordsBack(o)[2])
              ELSE /\ i \in DOMAIN call'.sensor_data <=> Len(WordsBack(o)) > 0
                   /\ i \in DOMAIN call'.sensor_data
                          => call'.sensor_data[i] =
                                 Scaled(WordsBack(o)[1],
                                        IF "scale_factor" \in config.keys
                                        THEN config.scale_factor ELSE 10)

\* C25: in a batch every recognised sensor entry maps to exactly one wire
\* operation: each iteration issues the one request of its entry (read_db
\* of 4 bytes for real and 2 for int, read_holding_registers of 1 register
\* for holding_register and 2 for holding_register_float) and decodes it as
\* the data_type says, the entries are taken in configuration order one
\* request at a time, and the batch ends only after its last entry.
C25_OneOperationPerSensor ==
    [][(call.op = "read" /\ call.pc = "loop" /\ call'.op = "read")
        => /\ Len(call'.outs) = Len(call.outs) + 1
                  => SensorMapsToOneOperation
           /\ Len(call'.outs) \in {Len(call.outs), Len(call.outs) + 1}
           /\ call'.pc = "done"
                  => \A j \in (Len(call'.outs) + 1)..Len(call'.cfg) :
                         ConfigError(call.type, call'.cfg[j])]_vars

\* the mapping of the iterations that take place, whatever ends the batch
SensorMappingHolds ==
    [][(call.op = "read" /\ call.pc = "loop" /\ call'.op = "read")
        => /\ Len(call'.outs) = Len(call.outs) + 1
                  => SensorMapsToOneOperation
           /\ Len(call'.outs) \in {Len(call.outs), Len(call.outs) + 1}]_vars

(***************************************************************************)
(* Properties of the conversions (SpecCodec)                               *)
(***************************************************************************)
\* struct.pack('>h', v): the inverse of the Int16 conversion
PackShort(v) ==
    LET u == IF v < 0 THEN v + 65536 ELSE v IN <<u \div 256, u % 256>>

\* struct.pack('>f', value) of a float identified by its float32 pattern
PackFloat(v) ==
    <<(v \div 16777216) % 256, (v \div 65536) % 256, (v \div 256) % 256,
      v % 256>>

\* the bytes a decoded value encodes to: struct.pack('>f', value) for
\* Real32, struct.pack('>h', value) for Int16, the two words of the float32
\* pattern, high word first, for HoldingRegisterFloat32, and the word
\* value / scale_factor for HoldingRegisterScaled
Encode(config, value) ==
    CASE config.data_type = "real" -> PackFloat(value.v)
      [] config.data_type = "int" -> PackShort(value.v)
      [] config.data_type = "holding_register_float" ->
             LET high_word == (value.v \div 65536) % 65536
                 low_word == value.v % 65536
             IN  PackWords(high_word, low_word)
      [] OTHER ->
             LET word == value.v \div ScaleFactor(config)
             IN  <<word \div 256, word % 256>>

\* the payload of the response to the sensor of the batch
PayloadOf(c) ==
    LET response == c.outs[1].data
    IN  Slice(response, IF c.type = "siemens" THEN 25 ELSE 9, Len(response))

\* the payload is the float32 pattern of a signalling NaN
SignallingNaN(raw) ==
    /\ Len(raw) = 4
    /\ raw[1] \in {127, 255} /\ raw[2] \in 128..191
    /\ <<raw[2], raw[3], raw[4]>> # <<128, 0, 0>>

\* a batch of one sensor whose payload was decoded
Decoded == call.op = "read" /\ Len(call.cfg) = 1 /\ call.outs[1].k = "reply"

\* C26: the conversions round-trip: every payload of the size its data_type
\* needs is decoded, and encoding the decoded value gives the payload back
\* (2 bytes for Int16, 4 bytes for Real32, the two register words for
\* HoldingRegisterFloat32, the word for HoldingRegisterScaled); decoding the
\* encoding of an Int16 v gives v.
C26_CodecRoundTrip ==
    /\ Decoded
       => /\ 1 \in DOMAIN call.sensor_data
          /\ Encode(call.cfg[1], call.sensor_data[1]) = PayloadOf(call)
    /\ \A v \in {-32768, -1, 0, 1, 255, 256, 32767} :
           UnpackShort(PackShort(v)).v = v

\* the round trip of every payload that is not a signalling NaN
RoundTripButSignallingNaN ==
    (Decoded /\ ~(call.cfg[1].data_type \in {"real", "holding_register_float"}
                     /\ SignallingNaN(PayloadOf(call))))
    => /\ 1 \in DOMAIN call.sensor_data
       /\ Encode(call.cfg[1], call.sensor_data[1]) = PayloadOf(call)

(***************************************************************************)
(* Properties of the operations on a connection (SpecOps)                  *)
(***************************************************************************)
\* the kind of exchange an operation of the facade makes
KindOf(op) == IF op = "write" THEN "write" ELSE "read"

\* the peer answered, and the answer is short or malformed, has the Modbus
\* error bit set, or has an S7 status byte other than 0xFF
ProtocolFailure(type, kind, o) ==
    /\ o.k = "reply"
    /\ IF type = "siemens"
       THEN IF kind = "write"
            THEN Len(o.data) < 22 \/ At(o.data, 21) # 255
            ELSE \/ Len(o.data) < 25
                 \/ At(o.data, 21) # 255
                 \/ Len(o.data) < 25 + At(o.data, 23) * 256 + At(o.data, 24)
       ELSE IF kind = "write"
            THEN Len(o.data) < 8 \/ At(o.data, 7) >= 128
            ELSE \/ Len(o.data) < 9
                 \/ At(o.data, 7) >= 128
                 \/ Len(o.data) < 9 + 2 * (At(o.data, 8) \div 2)

\* the peer answered with a response that is none of these
WellFormed(type, kind, o) ==
    o.k = "reply" /\ ~ProtocolFailure(type, kind, o)

\* the exchanges a step adds to the call: those of one iteration of a sensor
\* batch, or those of a whole write or test
NewExchanges ==
    IF call'.op = "read"
    THEN {i \in DOMAIN call'.outs : i > Len(call.outs)}
    ELSE IF Idle /\ call'.op \in {"write", "test"}
         THEN {i \in DOMAIN call'.outs : call'.outs[i] # NoExchange}
         ELSE {}

\* C11: an exchange that ends in a protocol failure fails its operation and
\* nothing else: the client is still connected with its socket open and the
\* registry is unchanged; an operation on the connection whose exchanges all
\* receive a well-formed response succeeds, whatever failed before it.
C11_ProtocolFailureIsLocal ==
    [][LET type == call'.type
           kind == KindOf(call'.op)
           failed == {i \in NewExchanges :
                         ProtocolFailure(type, kind, call'.outs[i])}
           formed == {i \in NewExchanges :
                         WellFormed(type, kind, call'.outs[i])}
       IN  /\ failed # {} =>
                 /\ UNCHANGED registry
                 /\ clients'[call'.client].connected
                 /\ clients'[call'.client].socket = "open"
                 /\ call'.op \in {"write", "test"} => ~call'.ret.ok
                 /\ call'.op = "read" =>
                        /\ failed \cap DOMAIN call'.sensor_data = {}
                        /\ call'.pc = "loop" /\ ~call'.raised
           /\ (formed # {} /\ formed = NewExchanges) =>
                 /\ call'.op \in {"write", "test"} => call'.ret.ok
                 /\ call'.op = "read" =>
                        \A i \in formed :
                            Good(type, call'.cfg[i], call'.outs[i])
                                => i \in DOMAIN call'.sensor_data]_vars

\* a batch of two on one connection: the first read was answered with a
\* protocol failure, the second with a well-formed response, and the second
\* sensor is returned from a client that is still connected
C11_Witness ==
    /\ ReadDone /\ Len(call.cfg) = 2
    /\ ProtocolFailure(call.type, "read", call.outs[1])
    /\ WellFormed(call.type, "read", call.outs[2])
    /\ ReturnedSensors = {2}
    /\ clients[call.client].connected /\ Registered(call.fid)

\* a write_alert call on a connected factory that has returned
WriteDone == call.op = "write" /\ call.pc = "done" /\ call.client # 0

\* the alert of a write_alert call
AlertOf(c) == c.cfg[1]

\* the severity levels of the alert convention and their values
SeverityLevels == {"low", "medium", "high", "critical"}
LevelValue(severity) ==
    CASE severity = "low" -> 1
      [] severity = "medium" -> 2
      [] severity = "high" -> 3
      [] severity = "critical" -> 4

\* the 16-bit big-endian word at byte offset i of a byte string
WordAt(data, i) == At(data, i) * 256 + At(data, i + 1)

\* C12: a write_alert of severity low/medium/high/critical puts on the wire,
\* for Siemens, one write of four bytes to data block 100 at offset 0 whose
\* second big-endian word is 1/2/3/4; for Schneider, a write of holding
\* register 1000 and then, once that is acknowledged, a write of register
\* 1001 with the value 1/2/3/4; a call that reports success has sent them all.
C12_AlertEncoding ==
    (WriteDone /\ AlertOf(call).severity \in SeverityLevels)
    => LET value == LevelValue(AlertOf(call).severity)
           sent == call.sent
       IN  IF call.type = "siemens"
           THEN /\ Len(sent) <= 1
                /\ call.ret.ok => Len(sent) = 1
                /\ \A i \in DOMAIN sent :
                       /\ sent[i].fn = "write_db"
                       /\ sent[i].unit = 100 /\ sent[i].addr = 0
                       /\ Len(sent[i].data) = 4
                       /\ WordAt(sent[i].data, 2) = value
           ELSE /\ Len(sent) <= 2
                /\ call.ret.ok => Len(sent) = 2
                /\ \A i \in DOMAIN sent :
                       /\ sent[i].fn = "write_single_register"
                       /\ sent[i].addr = 999 + i
                       /\ Len(sent[i].data) = 1
                /\ Len(sent) = 2 => sent[2].data[1] = value

\* a critical alert written to a Schneider controller: 4 in register 1001
C12_Witness ==
    /\ WriteDone /\ call.type = "schneider" /\ call.ret.ok
    /\ AlertOf(call).severity = "critical"
    /\ call.sent[2].addr = 1001 /\ call.sent[2].data = <<4>>

\* a low alert written to a Siemens controller: the words [1, 1]
C12_WitnessLow ==
    /\ WriteDone /\ call.type = "siemens" /\ call.ret.ok
    /\ AlertOf(call).severity = "low"
    /\ call.sent[1].data = <<0, 1, 0, 1>>

\* the active word a write_alert call put on the wire: the first word of the
\* Siemens write, the value of the first Schneider register write
ActiveWord(c) ==
    IF c.type = "siemens" THEN WordAt(c.sent[1].data, 0)
                          ELSE c.sent[1].data[1]

\* C13: the active word written is the alert's own active flag: 1 when
\* active is true, 0 when it is false.
C13_ActiveWordIsFlag ==
    (WriteDone /\ call.sent # << >>)
    => ActiveWord(call) = IF AlertOf(call).active THEN 1 ELSE 0

\* the requests that change the memory of the controller
WriteRequests(sent) ==
    {i \in DOMAIN sent :
        sent[i].fn \in {"write_db", "write_single_register",
                        "write_multiple_registers"}}

\* the minimal read of a vendor: 4 bytes of data block 1 at offset 0, or one
\* holding register at address 0
IsMinimalRead(type, req) ==
    IF type = "siemens"
    THEN req.fn = "read_db" /\ req.unit = 1 /\ req.addr = 0 /\ req.n = 4
    ELSE req.fn = "read_holding_registers" /\ req.addr = 0 /\ req.n = 1

\* C17: test_communication on a connected factory sends one request, the
\* minimal read of the vendor (none when the send itself fails), reports
\* success exactly when the read returned data, and leaves the registry, the
\* client's connected flag and socket, and the memory of the controller as
\* they were, whether it succeeds or fails.
C17_TestReadsOnce ==
    [][(Begins("test") /\ call'.client # 0)
        => LET o == call'.outs[1]
               sent == call'.sent
           IN  /\ call'.pc = "done" /\ ~call'.raised
               /\ Len(sent) = IF o.k = "send_error" THEN 0 ELSE 1
               /\ \A i \in DOMAIN sent : IsMinimalRead(call'.type, sent[i])
               /\ call'.ret.ok <=> WellFormed(call'.type, "read", o)
               /\ WriteRequests(sent) = {}
               /\ UNCHANGED registry
               /\ clients'[call'.client].connected
                      = clients[call'.client].connected
               /\ clients'[call'.client].socket
                      = clients[call'.client].socket]_vars

\* a test on a connected factory that failed after its one read was sent
C17_Witness ==
    /\ call.op = "test" /\ call.pc = "done" /\ call.client # 0
    /\ ~call.ret.ok /\ Len(call.sent) = 1
    /\ call.outs[1] \in {SockTimeout, Reply(MbException), Reply(S7Rejected)}
    /\ clients[call.client].connected /\ Registered(call.fid)

\* the registers of the controller a call has changed: those of the write
\* requests that reached the controller and that it acknowledged
RegistersChanged(c) ==
    {c.sent[i].addr : i \in {j \in DOMAIN c.sent :
                                /\ c.sent[j].fn = "write_single_register"
                                /\ c.outs[j].k = "reply"
                                /\ Len(c.outs[j].data) >= 8
                                /\ At(c.outs[j].data, 7) < 128}}

\* C28: write_alert on a Schneider connection is all-or-nothing: when it
\* returns False, it has changed neither the alert-active register 1000 nor
\* the severity register 1001 of the controller.
C28_SchneiderAlertAllOrNothing ==
    (WriteDone /\ call.type = "schneider" /\ ~call.ret.ok)
    => RegistersChanged(call) \cap {1000, 1001} = {}

(***************************************************************************)
(* Properties of the vendor clients (SpecClient)                           *)
(***************************************************************************)
\* the methods of the vendor clients
ClientOps ==
    {"client.connect", "client.disconnect", "client.read", "client.write",
     "client.write_multiple"}

\* the socket failed during the call: connect or close failed, or send or
\* recv raised
SocketFailed(c) ==
    \E i \in DOMAIN c.outs :
        c.outs[i].k \in {"refused", "timeout", "error", "send_error"}

\* C18: whatever the socket does in connect, send, recv or close, whatever
\* bytes are received and whatever the arguments, no method of a vendor
\* client raises: connect and the writes return a boolean, the reads return
\* None or data, disconnect returns None.
C18_NoExceptionEscapes ==
    call.op \in ClientOps
    => /\ ~call.raised
       /\ call.ret.none \in BOOLEAN /\ call.ret.ok \in BOOLEAN
       /\ call.op \in {"client.connect", "client.write",
                       "client.write_multiple"} => ~call.ret.none
       /\ call.op = "client.read" => (call.ret.none <=> ~call.ret.ok)
       /\ call.op = "client.disconnect" => call.ret.none
       /\ (SocketFailed(call) /\ call.op # "client.disconnect")
              => ~call.ret.ok

\* a read whose recv raised on a connected client, returned as None
C18_Witness ==
    /\ call.op = "client.read" /\ call.outs[1] \in {SockError, SockTimeout}
    /\ Len(call.sent) = 1 /\ call.ret.none /\ ~call.raised

\* the outcomes of an S7 connect that are an acceptance: TCP connected and a
\* reply with 0xD0 at offset 5
S7Accepted(outs) ==
    /\ outs[1].k = "ok"
    /\ outs[2].k = "reply"
    /\ Len(outs[2].data) >= 6 /\ At(outs[2].data, 5) = 208

\* C19: S7 connect returns True, with the client connected on an open
\* socket, exactly when TCP connected and the reply to the ISO connection
\* request has 0xD0 at offset 5; otherwise it returns False with connected
\* False and the socket closed and cleared; it sends at most one connection
\* request.
C19_S7ConnectIffAccepted ==
    (call.op = "client.connect" /\ call.type = "siemens")
    => LET c == clients[call.client]
       IN  /\ call.ret.ok <=> S7Accepted(call.outs)
           /\ IF S7Accepted(call.outs)
              THEN c.connected /\ c.socket = "open"
              ELSE ~c.connected /\ c.socket = "None"
           /\ Len(call.sent) <= 1
           /\ call.outs[1].k # "ok" => call.sent = << >>
           /\ ~call.raised

\* an S7 connect answered with a reply too short to hold offset 5
C19_Witness ==
    /\ call.op = "client.connect" /\ call.type = "siemens"
    /\ call.outs = <<Tcp("ok"), Reply(IsoShort)>>
    /\ ~call.ret.ok /\ clients[call.client].socket = "None"

\* C20: read_db(block, offset, length) returns data only for a response
\* whose status byte at offset 21 is 0xFF and that holds `length` payload
\* bytes from offset 25, and then returns exactly those `length` bytes; for
\* every other response it returns None; it never raises.
C20_S7ReadReturnsLength ==
    (call.op = "client.read" /\ call.type = "siemens"
        /\ call.outs[1].k = "reply")
    => LET response == call.outs[1].data
           length == call.cfg[1].size
           accepted == /\ Len(response) >= 25 + length
                       /\ At(response, 21) = 255
       IN  /\ ~call.raised
           /\ IF accepted
              THEN /\ ~call.ret.none
                   /\ call.ret.data = Slice(response, 25, 25 + length)
              ELSE call.ret.none

\* C21: write_db on a connected client returns True exactly when a response
\* was received that is at least 22 bytes long and has 0xFF at offset 21; a
\* shorter response, another status byte, a socket error or a request that
\* could not be built returns False; the client stays connected.
C21_S7WriteIffAcknowledged ==
    (call.op = "client.write" /\ call.type = "siemens" /\ call.obj.connected)
    => LET o == call.outs[1]
           acknowledged == /\ o.k = "reply"
                           /\ Len(o.data) >= 22
                           /\ At(o.data, 21) = 255
       IN  /\ call.ret.ok <=> acknowledged
           /\ ~call.ret.none /\ ~call.raised
           /\ clients[call.client].connected

\* a write on a connected client answered with another status byte
C21_Witness ==
    /\ call.op = "client.write" /\ call.type = "siemens"
    /\ call.outs[1] = Reply(S7WriteNak)
    /\ Len(call.sent) = 1 /\ ~call.ret.ok

\* a write on a connected client that was acknowledged
C21_WitnessAck ==
    /\ call.op = "client.write" /\ call.type = "siemens"
    /\ call.outs[1] = Reply(S7WriteAck) /\ call.ret.ok

\* C22: read_holding_registers returns None for a response shorter than 9
\* bytes, for one whose function code has the bit 0x80 set, and for one
\* shorter than 9 + byte_count bytes; for every other response it returns
\* byte_count / 2 values, the i-th being the big-endian word at offsets
\* 9 + 2i and 10 + 2i; it never raises.
C22_ModbusReadParse ==
    (call.op = "client.read" /\ call.type = "schneider"
        /\ call.outs[1].k = "reply")
    => LET response == call.outs[1].data
           func_code == At(response, 7)
           byte_count == At(response, 8)
           values == call.ret.data
       IN  /\ ~call.raised
           /\ IF Len(response) < 9
              THEN call.ret.none
              ELSE IF (func_code \div 128) % 2 = 1
                   THEN call.ret.none
                   ELSE IF Len(response) < 9 + byte_count
                        THEN call.ret.none
                        ELSE /\ ~call.ret.none
                             /\ Len(values) = byte_count \div 2
                             /\ \A i \in 0..(byte_count \div 2 - 1) :
                                    values[i + 1] =
                                        At(response, 9 + 2 * i) * 256
                                            + At(response, 10 + 2 * i)

\* C23: write_single_register and write_multiple_registers on a connected
\* client return True exactly when a response of at least 8 bytes was
\* received whose function code at offset 7 has the bit 0x80 clear; a shorter
\* response, an exception response, a socket error or a request that could
\* not be built returns False.
C23_ModbusWriteIffNoErrorBit ==
    (call.op \in {"client.write", "client.write_multiple"}
        /\ call.type = "schneider" /\ call.obj.connected)
    => LET o == call.outs[1]
           accepted == /\ o.k = "reply"
                       /\ Len(o.data) >= 8
                       /\ (At(o.data, 7) \div 128) % 2 = 0
       IN  /\ call.ret.ok <=> accepted
           /\ ~call.ret.none /\ ~call.raised

\* a write_multiple_registers answered with an exception response
C23_Witness ==
    /\ call.op = "client.write_multiple" /\ call.type = "schneider"
    /\ call.outs[1] = Reply(MbWriteNak)
    /\ Len(call.sent) = 1 /\ ~call.ret.ok

\* a write_single_register that was echoed
C23_WitnessAck ==
    /\ call.op = "client.write" /\ call.type = "schneider"
    /\ call.outs[1] = Reply(MbWriteAck) /\ call.ret.ok

\* the Modbus requests of a client: reads and writes
ModbusOps == {"client.read", "client.write", "client.write_multiple"}

\* C24: the transaction id of a Modbus client counts the requests sent on
\* it: the id changes exactly in a step that sends a request (whether or
\* not the send or the exchange succeeds), it then grows by one and the
\* request carries the new id; an operation on a client that is not
\* connected leaves the id unchanged.  With the id 0 at construction, the
\* k-th request then carries the id k.
C24_TransactionIdCountsRequests ==
    [][\A i \in DOMAIN clients :
          clients[i].kind = "schneider"
          => LET old == clients[i].transaction_id
                 new == clients'[i].transaction_id
                 requested == /\ call'.op \in ModbusOps /\ call'.client = i
                              /\ call'.outs[1] # NoExchange
             IN  /\ (new # old) <=> requested
                 /\ requested => /\ new = old + 1
                                 /\ \A j \in DOMAIN call'.sent :
                                        call'.sent[j].tid = new
                 /\ ~clients[i].connected => new = old]_vars

\* the length a frame declares in its TPKT header, bytes 2..3
TpktLength(frame) == At(frame, 2) * 256 + At(frame, 3)

\* C30: every frame a Siemens client puts on the wire (the ISO connection
\* request, a read request, a write request with any data) declares in its
\* TPKT length field the number of bytes the frame has.
C30_S7FrameDeclaresItsLength ==
    call.type = "siemens"
    => \A k \in DOMAIN call.sent :
           TpktLength(S7Frame(call.sent[k])) = Len(S7Frame(call.sent[k]))

\* the connection request does declare its length, and a read or write
\* request declares three bytes fewer than it has
S7FrameLengths ==
    call.type = "siemens"
    => \A k \in DOMAIN call.sent :
           LET frame == S7Frame(call.sent[k])
           IN  TpktLength(frame) =
                   Len(frame) - IF call.sent[k].fn = "iso_cr" THEN 0 ELSE 3

(***************************************************************************)
(* Properties of a Modbus client late in its connection (SpecLate)         *)
(***************************************************************************)
\* the arguments of a Modbus request fit their 16-bit fields
FitsFields(op, args) ==
    /\ args.address \in 0..65535
    /\ CASE op = "client.read" -> args.count \in 0..65535
         [] op = "client.write" -> args.value \in 0..65535
         [] OTHER -> \A j \in DOMAIN args.values : args.values[j] \in 0..65535

\* the controller answers the request, if it gets one, correctly
AnsweredCorrectly(op, args, o) ==
    \/ o = NoExchange
    \/ o = CASE op = "client.read" ->
                 Reply(IF args.count = 1 THEN MbOk1 ELSE MbOk2)
            [] OTHER -> Reply(MbWriteAck)

\* C29: however many requests a connected Modbus client has sent, a request
\* with arguments that fit their fields, answered correctly by the
\* controller, succeeds: it reaches the wire with an id within 0..65535 and
\* returns data or True.
C29_RequestCountNeverFails ==
    (call.op \in ModbusOps /\ call.type = "schneider" /\ call.obj.connected
        /\ FitsFields(call.op, call.cfg[1])
        /\ AnsweredCorrectly(call.op, call.cfg[1], call.outs[1]))
    => /\ call.ret.ok
       /\ Len(call.sent) = 1
       /\ call.sent[1].tid \in 0..MaxWireId

(***************************************************************************)
(* Properties of calls on a controller that may not answer (SpecWait)      *)
(***************************************************************************)
\* C27: every call of connect, read_sensors, write_alert and
\* test_communication that is entered eventually returns, also when the
\* controller never answers: each socket operation completes or times out.
C27_EveryCallReturns ==
    (call.op \in {"connect", "read", "write", "test"} /\ call.pc # "done")
        ~> (call.pc = "done")

\* a Schneider alert whose second write was never answered, returned False
\* after the timeout
C27_Witness ==
    /\ call.op = "write" /\ call.pc = "done" /\ call.type = "schneider"
    /\ call.outs = <<Reply(MbWriteAck), SockTimeout>>
    /\ ~call.ret.ok /\ ~call.ret.none

(***************************************************************************)
(* Properties of concurrent callers (SpecConc)                             *)
(***************************************************************************)
\* C14: under every interleaving of two callers, a socket has at most one
\* request whose response has not been received, and the response a caller
\* receives answers its own request.
C14_Serialized ==
    /\ \A i \in DOMAIN call.wire : Len(call.wire[i]) <= 1
    /\ \A t \in Callers : call.pc[t] = "done" => call.got[t] = t

====
